---- MODULE Spec2Model ----
(***************************************************************************)
(* Dense matrix reduction expressions of the Blaze library                 *)
(* (blaze/math/expressions/DMatReduceExpr.h): the total reduction kernels  *)
(* dmatreduce, the partial reduction nodes DMatReduceExpr<0|1,MT,OP>, the  *)
(* assignment protocol of the nodes and the compile-time strategy          *)
(* selection.                                                              *)
(*                                                                         *)
(* Indices are 0-based as in the source; a sequence position is index+1.   *)
(***************************************************************************)
EXTENDS Integers, Sequences, FiniteSets, TLC

VARIABLES dm, op, lhs, res, traits, sel

vars == <<dm, op, lhs, res, traits, sel>>

(***************************************************************************)
(* Bounds of the model.                                                    *)
(***************************************************************************)
\* largest row and column count of the operands of the kernel specification
MaxRows == 5
MaxCols == 5
\* largest row and column count of the operands of the node specification
MaxNodeRows == 3
MaxNodeCols == 3

\* width of size_t in bits
WordBits == 64

\* the column counts for which the end of the SIMD chunks is computed
MaxChunkCols == 40

\* the SIMD widths SIMDTrait<ET>::size explored
SimdWidths == {1, 2, 4}

\* the reduction operations explored: the functors Add and Mult the source
\* names, the functor Min, and a custom operation that is neither
\* associative nor commutative (Sub)
Ops == {"Add", "Mult", "Min", "Sub"}
AssocCommOps == {"Add", "Mult", "Min"}

StorageOrders == {"rowMajor", "columnMajor"}

\* element values: a background value and one distinguished element
Background == {1}
Specials == {-1, 2}

(***************************************************************************)
(* Operations and containers.                                              *)
(***************************************************************************)
\* op( a, b ) for the scalar element type
Apply(o, a, b) ==
    CASE o = "Add"  -> a + b
      [] o = "Mult" -> a * b
      [] o = "Min"  -> IF b < a THEN b ELSE a
      [] o = "Sub"  -> a - b

\* ET{}: the value-initialized element
ZeroElement == 0

\* result of a read outside the container by an unchecked access
Garbage == 0 - 99

\* m(i,j): element access by storage order
Elem(m, i, j) ==
    IF i >= 0 /\ i < m.rows /\ j >= 0 /\ j < m.cols
    THEN IF m.so = "rowMajor" THEN m.v[i * m.cols + j + 1]
                              ELSE m.v[j * m.rows + i + 1]
    ELSE Garbage

\* trans( m ): the transpose view; it reads the storage of m in the other order
trans(m) ==
    [rows |-> m.cols, cols |-> m.rows,
     so   |-> IF m.so = "rowMajor" THEN "columnMajor" ELSE "rowMajor",
     v    |-> m.v]

\* row( m, i, unchecked ) and column( m, j, unchecked ) as vectors
row(m, i) == [k \in 1..m.cols |-> Elem(m, i, k - 1)]
column(m, j) == [k \in 1..m.rows |-> Elem(m, k - 1, j)]

\* RT tmp( m ): evaluation of an operand into a row-major result matrix
Evaluate(m) ==
    [rows |-> m.rows, cols |-> m.cols, so |-> "rowMajor",
     v    |-> [k \in 1..(m.rows * m.cols) |->
                  Elem(m, (k - 1) \div m.cols, (k - 1) % m.cols)]]

\* the matrices the specifications start from: every element is the
\* background value except the one at storage position p
MatrixOf(M, N, so, p, s, b) ==
    [rows |-> M, cols |-> N, so |-> so,
     v    |-> [k \in 1..(M * N) |-> IF k = p THEN s ELSE b]]

Matrices(maxM, maxN) ==
    UNION { IF M * N = 0
            THEN { MatrixOf(M, N, so, 0, 0, 0) }
            ELSE { MatrixOf(M, N, so, p, s, b) :
                     p \in 1..(M * N), s \in Specials, b \in Background }
            : M \in 0..maxM, N \in 0..maxN, so \in StorageOrders }

(***************************************************************************)
(* Accumulators.  An accumulator carries its value v (a scalar, or the     *)
(* lanes of a SIMD register), the number of applications of the reduction  *)
(* operation that produced it (ops: calls of the functor op and the        *)
(* built-in += of the addition kernel alike, one per scalar or per         *)
(* register) and the element reads that went into it (rd, one <<i,j>>      *)
(* per element read).                                                      *)
(***************************************************************************)
\* ET redux{} / ET redux( tmp(i,j) )
NoAcc == [v |-> ZeroElement, ops |-> 0, rd |-> <<>>]
\* an accumulator of a row that starts from ET{} and skips the element
ScalarInit_Empty(tmp, i, j) == NoAcc

ScalarInit(tmp, i, j) == [v |-> Elem(tmp, i, j), ops |-> 0, rd |-> <<<<i, j>>>>]

\* redux = op( redux, tmp(i,j) )
ScalarStep(o, a, tmp, i, j) ==
    [v |-> Apply(o, a.v, Elem(tmp, i, j)), ops |-> a.ops + 1,
     rd |-> Append(a.rd, <<i, j>>)]

\* redux0 = op( redux0, redux1 )
ScalarJoin(o, a, b) ==
    [v |-> Apply(o, a.v, b.v), ops |-> a.ops + b.ops + 1, rd |-> a.rd \o b.rd]

\* for( ; j<N; ++j ) redux = op( redux, tmp(i,j) )
RECURSIVE RowLoop(_, _, _, _, _, _)
RowLoop(o, a, tmp, i, j, N) ==
    IF j < N THEN RowLoop(o, ScalarStep(o, a, tmp, i, j), tmp, i, j + 1, N)
    ELSE a

(***************************************************************************)
(* dmatreduce, scalar kernel (selected when vectorization cannot be        *)
(* applied).                                                               *)
(***************************************************************************)
\* the row loop from i on: two rows at a time, then the remaining row
RECURSIVE ScalarRows(_, _, _, _, _, _)
ScalarRows(o, redux0, tmp, i, M, N) ==
    IF i + 2 <= M
    THEN LET redux1 == RowLoop(o, ScalarInit(tmp, i, 0), tmp, i, 1, N)
             redux2 == RowLoop(o, ScalarInit(tmp, i + 1, 0), tmp, i + 1, 1, N)
         IN  ScalarRows(o, ScalarJoin(o, redux0, ScalarJoin(o, redux1, redux2)),
                        tmp, i + 2, M, N)
    ELSE IF i < M
         THEN ScalarJoin(o, redux0, RowLoop(o, ScalarInit(tmp, i, 0), tmp, i, 1, N))
         ELSE redux0

\* a scalar kernel that returns early only when both dimensions are zero
dmatreduce_scalar_BothZero(m, o) ==
    LET M == m.rows
        N == m.cols
    IN  IF M = 0 /\ N = 0 THEN NoAcc
        ELSE IF M = 1 /\ N = 1 THEN ScalarInit(m, 0, 0)
        ELSE ScalarRows(o, RowLoop(o, ScalarInit(m, 0, 0), m, 0, 1, N), m, 1, M, N)

\* a scalar kernel without the shortcut for the 1x1 matrix, starting from ET{}
dmatreduce_scalar_NoShortcut(m, o) ==
    LET M == m.rows
        N == m.cols
    IN  IF M = 0 \/ N = 0 THEN NoAcc
        ELSE ScalarRows(o, RowLoop(o, ScalarStep(o, NoAcc, m, 0, 0), m, 0, 1, N),
                        m, 1, M, N)

dmatreduce_scalar(m, o) ==
    LET M == m.rows
        N == m.cols
    IN  IF M = 0 \/ N = 0 THEN NoAcc
        ELSE IF M = 1 /\ N = 1 THEN ScalarInit(m, 0, 0)
        ELSE ScalarRows(o, RowLoop(o, ScalarInit(m, 0, 0), m, 0, 1, N), m, 1, M, N)

(***************************************************************************)
(* SIMD registers.                                                         *)
(***************************************************************************)
\* tmp.load(i,j): the w elements (i,j) .. (i,j+w-1); lanes beyond the last
\* column read the padding elements (zero) of a padded matrix
VLoad(tmp, i, j, w, pad) ==
    [v   |-> [k \in 1..w |-> IF j + k - 1 < tmp.cols THEN Elem(tmp, i, j + k - 1)
                             ELSE IF pad THEN ZeroElement ELSE Garbage],
     ops |-> 0,
     rd  |-> [k \in 1..w |-> <<i, j + k - 1>>]]

\* SIMDTrait_t<ET> xmm1: the default-constructed register
VZero(w) == [v |-> [k \in 1..w |-> ZeroElement], ops |-> 0, rd |-> <<>>]

\* xmm1 = op( xmm1, xmm2 ): one application of op on all lanes
VJoin(o, x, y) ==
    [v   |-> [k \in 1..Len(x.v) |-> Apply(o, x.v[k], y.v[k])],
     ops |-> x.ops + y.ops + 1,
     rd  |-> x.rd \o y.rd]

\* xmm1 = op( xmm1, tmp.load(i,j) )
VStep(o, x, tmp, i, j, w, pad) == VJoin(o, x, VLoad(tmp, i, j, w, pad))

\* a remainder step that combines the element with itself and drops lane 0
Lane0Step_Overwrites(o, x, tmp, i, j) ==
    [v   |-> [x.v EXCEPT ![1] = Apply(o, Elem(tmp, i, j), Elem(tmp, i, j))],
     ops |-> x.ops + 1,
     rd  |-> Append(x.rd, <<i, j>>)]

\* xmm1[0] = op( xmm1[0], tmp(i,j) )
Lane0Step(o, x, tmp, i, j) ==
    [v   |-> [x.v EXCEPT ![1] = Apply(o, x.v[1], Elem(tmp, i, j))],
     ops |-> x.ops + 1,
     rd  |-> Append(x.rd, <<i, j>>)]

\* N & size_t(-SIMDSIZE) on WordBits-bit words, from bit b upwards: n and w
\* are the operands shifted right by b, and size_t(-w) is ~w + 1 with the
\* carry of the + 1 rippling upwards; once no bit of n is left every
\* further bit of the conjunction is 0
RECURSIVE AndNeg(_, _, _, _)
AndNeg(n, w, carry, b) ==
    IF b >= WordBits \/ n = 0 THEN 0
    ELSE LET s == (1 - (w % 2)) + carry
         IN  (n % 2) * (s % 2) + 2 * AndNeg(n \div 2, w \div 2, s \div 2, b + 1)

\* a chunk end that clears the lowest bit only, whatever the SIMD width
ChunkEnd_Even(N, w) == N - (N % 2)

\* a chunk end rounded up to the next multiple of the SIMD width
ChunkEnd_RoundUp(N, w) == ((N + w - 1) \div w) * w

ChunkEnd(N, w) == AndNeg(N, w, 1, 0)

\* for( ; j<jpos; j+=SIMDSIZE ) xmm1 = op( xmm1, tmp.load(i,j) )
RECURSIVE VecLoop(_, _, _, _, _, _, _, _)
VecLoop(o, x, tmp, i, j, jpos, w, pad) ==
    IF j < jpos THEN VecLoop(o, VStep(o, x, tmp, i, j, w, pad), tmp, i, j + w, jpos, w, pad)
    ELSE x

\* the value of j when that loop ends
RECURSIVE VecLoopEnd(_, _, _)
VecLoopEnd(j, jpos, w) == IF j < jpos THEN VecLoopEnd(j + w, jpos, w) ELSE j

\* for( ; j<N; ++j ) xmm1[0] = op( xmm1[0], tmp(i,j) )
RECURSIVE TailLoop(_, _, _, _, _, _)
TailLoop(o, x, tmp, i, j, N) ==
    IF j < N THEN TailLoop(o, Lane0Step(o, x, tmp, i, j), tmp, i, j + 1, N)
    ELSE x

\* one row of the generic SIMD kernel, x already holding the chunk at column 0
SimdRow(o, x, tmp, i, jpos, N, w, pad) ==
    TailLoop(o, VecLoop(o, x, tmp, i, w, jpos, w, pad), tmp, i,
             VecLoopEnd(w, jpos, w), N)

(***************************************************************************)
(* dmatreduce, generic SIMD kernel (selected when vectorization can be     *)
(* applied).                                                               *)
(***************************************************************************)
\* the row loop from i on: four rows at a time, then two rows, then one row
RECURSIVE SimdRows(_, _, _, _, _, _, _, _, _)
SimdRows(o, xmm1, tmp, i, M, N, jpos, w, pad) ==
    IF i + 4 <= M
    THEN LET x1 == SimdRow(o, VStep(o, xmm1, tmp, i, 0, w, pad), tmp, i, jpos, N, w, pad)
             x2 == SimdRow(o, VLoad(tmp, i + 1, 0, w, pad), tmp, i + 1, jpos, N, w, pad)
             x3 == SimdRow(o, VLoad(tmp, i + 2, 0, w, pad), tmp, i + 2, jpos, N, w, pad)
             x4 == SimdRow(o, VLoad(tmp, i + 3, 0, w, pad), tmp, i + 3, jpos, N, w, pad)
         IN  SimdRows(o, VJoin(o, VJoin(o, x1, x2), VJoin(o, x3, x4)),
                      tmp, i + 4, M, N, jpos, w, pad)
    ELSE LET two == i + 2 <= M
             y1  == SimdRow(o, VStep(o, xmm1, tmp, i, 0, w, pad), tmp, i, jpos, N, w, pad)
             y2  == SimdRow(o, VLoad(tmp, i + 1, 0, w, pad), tmp, i + 1, jpos, N, w, pad)
             xa  == IF two THEN VJoin(o, y1, y2) ELSE xmm1
             ia  == IF two THEN i + 2 ELSE i
         IN  IF ia < M
             THEN SimdRow(o, VStep(o, xa, tmp, ia, 0, w, pad), tmp, ia, jpos, N, w, pad)
             ELSE xa

\* redux = xmm1[0]; for( k=1; k<SIMDSIZE; ++k ) redux = op( redux, xmm1[k] )
RECURSIVE LaneFold(_, _, _, _)
LaneFold(o, lanes, k, redux) ==
    IF k <= Len(lanes) THEN LaneFold(o, lanes, k + 1, Apply(o, redux, lanes[k]))
    ELSE redux

\* prod( xmm1 ) and sum( xmm1 ): the horizontal product and sum of the lanes
prod(lanes) == LaneFold("Mult", lanes, 2, lanes[1])
sum(lanes) == LaneFold("Add", lanes, 2, lanes[1])

\* for( i=1; i<M; ++i ) for( j=0; j<N; ++j ) redux = op( redux, tmp(i,j) )
RECURSIVE PlainRows(_, _, _, _, _, _)
PlainRows(o, redux, tmp, i, M, N) ==
    IF i < M THEN PlainRows(o, RowLoop(o, redux, tmp, i, 0, N), tmp, i + 1, M, N)
    ELSE redux

dmatreduce_simd(m, o, w, pad) ==
    LET M == m.rows
        N == m.cols
    IN  IF M = 0 \/ N = 0 THEN NoAcc
        ELSE IF N >= w
        THEN LET jpos == ChunkEnd(N, w)
                 row0 == SimdRow(o, VLoad(m, 0, 0, w, pad), m, 0, jpos, N, w, pad)
                 xmm1 == SimdRows(o, row0, m, 1, M, N, jpos, w, pad)
             IN  [v   |-> IF o = "Mult" THEN prod(xmm1.v)
                          ELSE LaneFold(o, xmm1.v, 2, xmm1.v[1]),
                  ops |-> xmm1.ops + (w - 1),
                  rd  |-> xmm1.rd]
        ELSE PlainRows(o, RowLoop(o, ScalarInit(m, 0, 0), m, 0, 1, N), m, 1, M, N)

(***************************************************************************)
(* dmatreduce, SIMD kernel of the summation (operation Add).  Its state    *)
(* is the scalar redux and the register xmm1.                              *)
(***************************************************************************)
\* a remainder loop that adds the first row of its block only
AddColumn_FirstRowOnly(redux, tmp, i, n, j) == ScalarStep("Add", redux, tmp, i, j)

\* redux += tmp(i,j); ... ; redux += tmp(i+n-1,j)
RECURSIVE AddColumn(_, _, _, _, _)
AddColumn(redux, tmp, i, n, j) ==
    IF n = 0 THEN redux
    ELSE AddColumn(ScalarStep("Add", redux, tmp, i, j), tmp, i + 1, n - 1, j)

\* for( ; remainder && j<N; ++j ) over the n rows from i on
RECURSIVE AddTail(_, _, _, _, _, _, _)
AddTail(redux, tmp, i, n, j, N, remainder) ==
    IF remainder /\ j < N
    THEN AddTail(AddColumn(redux, tmp, i, n, j), tmp, i, n, j + 1, N, remainder)
    ELSE redux

\* the vector part of one row: the chunk at column 0, then the chunks to jpos
AddRow(x, tmp, i, jpos, w, pad) == VecLoop("Add", x, tmp, i, w, jpos, w, pad)

RECURSIVE AddRows(_, _, _, _, _, _, _, _)
AddRows(st, tmp, i, M, N, jpos, w, pad) ==
    LET jend == VecLoopEnd(w, jpos, w)
    IN  IF i + 4 <= M
        THEN LET x1 == AddRow(VStep("Add", st.xmm1, tmp, i, 0, w, pad), tmp, i, jpos, w, pad)
                 x2 == AddRow(VLoad(tmp, i + 1, 0, w, pad), tmp, i + 1, jpos, w, pad)
                 x3 == AddRow(VLoad(tmp, i + 2, 0, w, pad), tmp, i + 2, jpos, w, pad)
                 x4 == AddRow(VLoad(tmp, i + 3, 0, w, pad), tmp, i + 3, jpos, w, pad)
             IN  AddRows([redux |-> AddTail(st.redux, tmp, i, 4, jend, N, ~pad),
                          xmm1  |-> VJoin("Add", VJoin("Add", x1, x2),
                                                 VJoin("Add", x3, x4))],
                         tmp, i + 4, M, N, jpos, w, pad)
        ELSE LET two == i + 2 <= M
                 y1  == AddRow(VStep("Add", st.xmm1, tmp, i, 0, w, pad), tmp, i, jpos, w, pad)
                 y2  == AddRow(VLoad(tmp, i + 1, 0, w, pad), tmp, i + 1, jpos, w, pad)
                 xa  == IF two THEN VJoin("Add", y1, y2) ELSE st.xmm1
                 ra  == IF two THEN AddTail(st.redux, tmp, i, 2, jend, N, ~pad)
                        ELSE st.redux
                 ia  == IF two THEN i + 2 ELSE i
             IN  IF ia < M
                 THEN [redux |-> AddTail(ra, tmp, ia, 1, jend, N, ~pad),
                       xmm1  |-> AddRow(VStep("Add", xa, tmp, ia, 0, w, pad),
                                        tmp, ia, jpos, w, pad)]
                 ELSE [redux |-> ra, xmm1 |-> xa]

dmatreduce_simd_add(m, w, pad) ==
    LET M == m.rows
        N == m.cols
        remainder == ~pad
    IN  IF M = 0 \/ N = 0 THEN NoAcc
        ELSE IF ~remainder \/ N >= w
        THEN LET jpos == IF remainder THEN ChunkEnd(N, w) ELSE N
                 st   == AddRows([redux |-> NoAcc, xmm1 |-> VZero(w)],
                                 m, 0, M, N, jpos, w, pad)
             IN  [v   |-> st.redux.v + sum(st.xmm1.v),
                  ops |-> st.redux.ops + st.xmm1.ops + (w - 1) + 1,
                  rd  |-> st.redux.rd \o st.xmm1.rd]
        ELSE PlainRows("Add", NoAcc, m, 0, M, N)

(***************************************************************************)
(* Selection of the dmatreduce overload.                                   *)
(***************************************************************************)
Kernels == {"scalar", "simd", "simdAdd", "transpose"}

\* the overloads whose parameter types match and whose SFINAE condition
\* holds, for storage order so, DMatReduceExprHelper<MT,OP>::value = simd
\* and operation o
Viable(so, simd, o) ==
    { k \in Kernels :
        CASE k = "scalar"    -> so = "rowMajor" /\ ~simd
          [] k = "simd"      -> so = "rowMajor" /\ simd
          [] k = "simdAdd"   -> so = "rowMajor" /\ o = "Add" /\ simd
          [] k = "transpose" -> so = "columnMajor" }

\* an ordering that prefers the generic SIMD overload
MoreSpecialized_Generic(a, b) == a = "simd" /\ b = "simdAdd"

\* partial ordering of the overloads: the overload taking Add is more
\* specialized than the ones taking any OP
MoreSpecialized(a, b) == a = "simdAdd" /\ b \in {"scalar", "simd"}

\* the best viable overloads; the call compiles when there is exactly one
Best(so, simd, o) ==
    { k \in Viable(so, simd, o) :
        \A other \in Viable(so, simd, o) \ {k} : MoreSpecialized(k, other) }

SelectKernel(so, simd, o) == CHOOSE k \in Best(so, simd, o) : TRUE

\* dmatreduce( dm, op ): the selected kernel; a column-major matrix is
\* reduced as dmatreduce( trans( dm ), op ).  path lists the kernels entered.
RECURSIVE dmatreduce(_, _, _, _, _)
dmatreduce(m, o, simd, w, pad) ==
    LET k == SelectKernel(m.so, simd, o)
        r == CASE k = "scalar"    -> dmatreduce_scalar(m, o)
               [] k = "simd"      -> dmatreduce_simd(m, o, w, pad)
               [] k = "simdAdd"   -> dmatreduce_simd_add(m, w, pad)
               [] k = "transpose" -> dmatreduce(trans(m), o, simd, w, pad)
    IN  [v |-> r.v, ops |-> r.ops, rd |-> r.rd,
         path |-> IF k = "transpose" THEN <<k>> \o r.path ELSE <<k>>]

\* reduce( dm, op ) and sum( dm )
reduce(m, o, simd, w, pad) == dmatreduce(m, o, simd, w, pad)
sumOf(m, simd, w, pad) == reduce(m, "Add", simd, w, pad)

(***************************************************************************)
(* State.  dm is the operand, op the reduction operation, lhs the target   *)
(* of the assignments, res the outcome of the last call, traits the        *)
(* compile-time properties of the operand and operation types and sel the  *)
(* strategies resolved from them.                                          *)
(***************************************************************************)
NoRes == [kind |-> "none"]
NoTraits == [kind |-> "none"]
NoSel == [kind |-> "none"]

\* the vectorization settings of a call: without vectorization the SIMD
\* width and the padding play no role
SimdSettings ==
    { [simd |-> FALSE, w |-> 1, pad |-> FALSE] } \cup
    { [simd |-> TRUE, w |-> w, pad |-> pad] : w \in SimdWidths, pad \in BOOLEAN }

ReduceResult(kind, o, c, r) ==
    [kind |-> kind, op |-> o, simd |-> c.simd, w |-> c.w, pad |-> c.pad,
     v |-> r.v, ops |-> r.ops, rd |-> r.rd, path |-> r.path]

(***************************************************************************)
(* Specification of the total reduction: the operand is drawn from the     *)
(* bounded matrices; a call reduces it with some operation and some        *)
(* vectorization settings and leaves its outcome in res until the caller   *)
(* has taken it.                                                           *)
(***************************************************************************)
InitKernel ==
    /\ dm \in Matrices(MaxRows, MaxCols)
    /\ op = "Add"
    /\ lhs = <<>>
    /\ res = NoRes
    /\ traits = NoTraits
    /\ sel = NoSel

Reduce ==
    \E o \in Ops, c \in SimdSettings :
        /\ res = NoRes
        /\ res' = ReduceResult("reduce", o, c, reduce(dm, o, c.simd, c.w, c.pad))
        /\ UNCHANGED <<dm, op, lhs, traits, sel>>

Sum ==
    \E c \in SimdSettings :
        /\ res = NoRes
        /\ res' = ReduceResult("sum", "Add", c, sumOf(dm, c.simd, c.w, c.pad))
        /\ UNCHANGED <<dm, op, lhs, traits, sel>>

\* the caller takes the outcome of the call
Return ==
    /\ res # NoRes
    /\ res' = NoRes
    /\ UNCHANGED <<dm, op, lhs, traits, sel>>

NextKernel == Reduce \/ Sum \/ Return

SpecKernel == InitKernel /\ [][NextKernel]_vars

(***************************************************************************)
(* The partial reduction nodes DMatReduceExpr<0UL,MT,OP> (column-wise, a   *)
(* row vector) and DMatReduceExpr<1UL,MT,OP> (row-wise, a column vector)   *)
(* over a row-major operand.                                               *)
(***************************************************************************)
\* reduce( v, op ) of a dense vector: the zero element when v is empty,
\* else the elements of v combined with op from the first on
RECURSIVE VecFold(_, _, _, _)
VecFold(vec, o, k, redux) ==
    IF k <= Len(vec) THEN VecFold(vec, o, k + 1, Apply(o, redux, vec[k]))
    ELSE redux
dvecreduce(vec, o) ==
    IF Len(vec) = 0 THEN ZeroElement ELSE VecFold(vec, o, 2, vec[1])

\* DMatReduceExpr( dm, op ): the node keeps the operand and the operation
DMatReduceExpr(rf, m, o) == [rf |-> rf, dm |-> m, op |-> o]

\* a column-wise node that reduces the rows instead
ColSubscript_Row(n, index) == dvecreduce(row(n.dm, index), n.op)

\* operator[] of the column-wise node
ColSubscript(n, index) == dvecreduce(column(n.dm, index), n.op)

\* operator[] of the row-wise node
RowSubscript(n, index) == dvecreduce(row(n.dm, index), n.op)

\* size() of the column-wise and of the row-wise node
ColSize(n) == n.dm.cols
RowSize(n) == n.dm.rows

Raised == [raised |-> TRUE]
Value(x) == [raised |-> FALSE, v |-> x]

\* a checked access that accepts the index equal to the size
ColAt_OffByOne(n, index) ==
    IF index > n.dm.cols THEN Raised ELSE Value(ColSubscript(n, index))

\* a checked access that refuses the last valid index
RowAt_RefusesLast(n, index) ==
    IF index + 1 >= n.dm.rows THEN Raised ELSE Value(RowSubscript(n, index))

\* at() of the column-wise and of the row-wise node
ColAt(n, index) ==
    IF index >= n.dm.cols THEN Raised ELSE Value(ColSubscript(n, index))
RowAt(n, index) ==
    IF index >= n.dm.rows THEN Raised ELSE Value(RowSubscript(n, index))

\* the two specializations behind one name
NodeSubscript(n, index) ==
    IF n.rf = 0 THEN ColSubscript(n, index) ELSE RowSubscript(n, index)
NodeSize(n) == IF n.rf = 0 THEN ColSize(n) ELSE RowSize(n)
NodeAt(n, index) == IF n.rf = 0 THEN ColAt(n, index) ELSE RowAt(n, index)

\* the values tried for SMP_DMATDVECMULT_THRESHOLD
Thresholds == 0..MaxNodeCols

\* a query that already answers true at the threshold
ColCanSMPAssign_AtThreshold(n, operandCan, th) == operandCan \/ ColSize(n) >= th

\* canSMPAssign() of the column-wise and of the row-wise node; operandCan is
\* dm_.canSMPAssign() and th the threshold
ColCanSMPAssign(n, operandCan, th) == operandCan \/ ColSize(n) > th
RowCanSMPAssign(n, operandCan, th) == operandCan \/ RowSize(n) > th
NodeCanSMPAssign(n, operandCan, th) ==
    IF n.rf = 0 THEN ColCanSMPAssign(n, operandCan, th)
    ELSE RowCanSMPAssign(n, operandCan, th)

\* operand(), operation(), canAlias(), isAliased() and isAligned() of either
\* node: the operand, the operation, twice the answer of
\* dm_.isAliased( alias ), here operandAliased, and false
Queries == {"operand", "operation", "canAlias", "isAliased", "isAligned"}
Query(q, n, operandAliased) ==
    CASE q = "operand" -> n.dm
      [] q = "operation" -> n.op
      [] q = "canAlias" -> operandAliased
      [] q = "isAliased" -> operandAliased
      [] q = "isAligned" -> FALSE

\* ConstIterator of the row-wise node: the operand, the index of the
\* current row and the operation
ConstIterator(m, index, o) == [dm |-> m, index |-> index, op |-> o]

\* begin() and end() of the row-wise node
begin(n) == ConstIterator(n.dm, 0, n.op)
end(n) == ConstIterator(n.dm, RowSize(n), n.op)

\* an increment that leaves the index alone
PreIncrement_Stuck(it) == ConstIterator(it.dm, it.index, it.op)

\* operator++(), operator*() and operator==() of the iterator
PreIncrement(it) == [it EXCEPT !.index = @ + 1]
Deref(it) == dvecreduce(row(it.dm, it.index), it.op)
IterEqual(a, b) == a.index = b.index

\* the copy of an iterator: a copy of each of its members
IterCopy(it) == ConstIterator(it.dm, it.index, it.op)

\* trans( v ) of a vector expression: the other transpose flag, the same node
transVec(x) == [tf |-> ~x.tf, node |-> x.node]

\* a backend for column-major matrices that keeps the reduction flag
reduce_backend_SameFlag(rf, m, o) ==
    IF m.so = "rowMajor"
    THEN [tf |-> (rf = 0), node |-> DMatReduceExpr(rf, m, o)]
    ELSE transVec([tf |-> (rf = 0), node |-> DMatReduceExpr(rf, trans(m), o)])

\* reduce_backend<RF>( dm, op ): the node for a row-major matrix, and
\* trans( reduce<1-RF>( trans( dm ), op ) ) for a column-major matrix
RECURSIVE reduce_backend(_, _, _)
reduce_backend(rf, m, o) ==
    IF m.so = "rowMajor"
    THEN [tf |-> (rf = 0), node |-> DMatReduceExpr(rf, m, o)]
    ELSE transVec(reduce_backend(1 - rf, trans(m), o))

\* reduce<RF>( dm, op ) and sum<RF>( dm )
reduceRF(rf, m, o) == reduce_backend(rf, m, o)
sumRF(rf, m) == reduceRF(rf, m, "Add")

(***************************************************************************)
(* Assignment targets.  A target has a kind, a size n and its elements e:  *)
(* a dense vector stores all n elements, a sparse vector the non-zero ones.*)
(***************************************************************************)
Get(t, k) == IF k \in DOMAIN t.e THEN t.e[k] ELSE ZeroElement
Contents(t) == [k \in 1..t.n |-> Get(t, k)]

\* the target holding the values vals
Store(t, vals) ==
    IF t.kind = "dense" THEN [t EXCEPT !.e = vals]
    ELSE [t EXCEPT !.e = [k \in {i \in 1..t.n : vals[i] # ZeroElement} |-> vals[k]]]

\* reset( lhs ): every element becomes the zero element
reset(t) == Store(t, [k \in 1..t.n |-> ZeroElement])

\* assign( lhs, v ) and addAssign( lhs, v ) of a dense vector v
VecAssign(t, vals) == Store(t, vals)
VecAddAssign(t, vals) == Store(t, [k \in 1..t.n |-> Get(t, k) + vals[k]])

\* map( a, b, op ): the element-wise application of op
VecMap(a, b, o) == [k \in 1..Len(a) |-> Apply(o, a[k], b[k])]

\* the default assignment and addition assignment of a vector expression
\* that needs no evaluation: element by element through operator[]
DefaultAssign(t, n) == Store(t, [k \in 1..t.n |-> NodeSubscript(n, k - 1)])
DefaultAddAssign(t, n) ==
    Store(t, [k \in 1..t.n |-> Get(t, k) + NodeSubscript(n, k - 1)])

(***************************************************************************)
(* Assignment of the column-wise node.                                     *)
(***************************************************************************)
\* for( i=1; i<M; ++i ) assign( lhs, map( lhs, row( tmp, i ), op ) )
RECURSIVE ColAssignRows(_, _, _, _, _)
ColAssignRows(t, tmp, o, i, M) ==
    IF i < M
    THEN ColAssignRows(VecAssign(t, VecMap(Contents(t), row(tmp, i), o)), tmp, o, i + 1, M)
    ELSE t

\* an assignment that stops after the first row of the operand
ColAssignDense_FirstRow(t, n) ==
    IF n.dm.rows = 0 THEN reset(t) ELSE VecAssign(t, row(n.dm, 0))

\* an assignment that leaves the target alone when the operand has no rows
ColAssignDense_KeepsEmpty(t, n) ==
    LET M == n.dm.rows
    IN  IF M = 0 THEN t
        ELSE ColAssignRows(VecAssign(t, row(n.dm, 0)), n.dm, n.op, 1, M)

\* assign( DenseVector& lhs, const DMatReduceExpr& rhs )
ColAssignDense(t, n) ==
    LET M == n.dm.rows
    IN  IF M = 0 THEN reset(t)
        ELSE ColAssignRows(VecAssign(t, row(n.dm, 0)), n.dm, n.op, 1, M)

\* const ResultType tmp( rhs ): the node evaluated into a new dense vector
ColResult(n) ==
    Contents(ColAssignDense([kind |-> "dense", n |-> ColSize(n),
                             e |-> [k \in 1..ColSize(n) |-> ZeroElement]], n))

\* assign( SparseVector& lhs, const DMatReduceExpr& rhs )
ColAssignSparse(t, n) == VecAssign(t, ColResult(n))

\* for( i=0; i<M; ++i ) addAssign( lhs, row( tmp, i ) )
RECURSIVE ColAddRows(_, _, _, _)
ColAddRows(t, tmp, i, M) ==
    IF i < M THEN ColAddRows(VecAddAssign(t, row(tmp, i)), tmp, i + 1, M)
    ELSE t

\* an addition assignment whose row loop starts at the second row
ColAddAssignDense_SkipRow(t, n) ==
    IF n.dm.rows = 0 THEN t
    ELSE IF n.op = "Add" THEN ColAddRows(t, n.dm, 1, n.dm.rows)
    ELSE VecAddAssign(t, ColResult(n))

\* addAssign( DenseVector& lhs, const DMatReduceExpr& rhs )
ColAddAssignDense(t, n) ==
    IF n.dm.rows = 0 THEN t
    ELSE IF n.op = "Add" THEN ColAddRows(t, n.dm, 0, n.dm.rows)
    ELSE VecAddAssign(t, ColResult(n))

\* addAssign( SparseVector& lhs, const DMatReduceExpr& rhs )
ColAddAssignSparse(t, n) == VecAddAssign(t, ColResult(n))

(***************************************************************************)
(* Assignment of the row-wise node: the overloads below are selected when  *)
(* the operand requires an intermediate evaluation (useAssign); otherwise  *)
(* the node is evaluated through its subscript operator.                   *)
(***************************************************************************)
\* assign( Vector& lhs, const DMatReduceExpr& rhs )
RowAssign(t, n) == DefaultAssign(t, reduceRF(1, Evaluate(n.dm), n.op).node)

\* addAssign( Vector& lhs, const DMatReduceExpr& rhs )
RowAddAssign(t, n) == DefaultAddAssign(t, reduceRF(1, Evaluate(n.dm), n.op).node)

\* assign( lhs, rhs ) and addAssign( lhs, rhs ) for either node; reqEval is
\* RequiresEvaluation_v<MT> of the operand type
assign(t, n, reqEval) ==
    IF n.rf = 0
    THEN IF t.kind = "dense" THEN ColAssignDense(t, n) ELSE ColAssignSparse(t, n)
    ELSE IF reqEval THEN RowAssign(t, n) ELSE DefaultAssign(t, n)

addAssign(t, n, reqEval) ==
    IF n.rf = 0
    THEN IF t.kind = "dense" THEN ColAddAssignDense(t, n) ELSE ColAddAssignSparse(t, n)
    ELSE IF reqEval THEN RowAddAssign(t, n) ELSE DefaultAddAssign(t, n)

(***************************************************************************)
(* The further compound assignments.  The division of the elements         *)
(* truncates towards zero; it is applied to non-zero divisors only.        *)
(***************************************************************************)
Quot(a, b) ==
    IF (a >= 0) = (b >= 0)
    THEN (IF a >= 0 THEN a ELSE 0 - a) \div (IF b >= 0 THEN b ELSE 0 - b)
    ELSE 0 - ((IF a >= 0 THEN a ELSE 0 - a) \div (IF b >= 0 THEN b ELSE 0 - b))

\* subAssign( lhs, v ), multAssign( lhs, v ) and divAssign( lhs, v ) of a
\* dense vector v
VecSubAssign(t, vals) == Store(t, [k \in 1..t.n |-> Get(t, k) - vals[k]])
VecMultAssign(t, vals) == Store(t, [k \in 1..t.n |-> Get(t, k) * vals[k]])
VecDivAssign(t, vals) == Store(t, [k \in 1..t.n |-> Quot(Get(t, k), vals[k])])

\* the default compound assignments of a vector expression that needs no
\* evaluation: element by element through operator[]
DefaultSubAssign(t, n) ==
    Store(t, [k \in 1..t.n |-> Get(t, k) - NodeSubscript(n, k - 1)])
DefaultMultAssign(t, n) ==
    Store(t, [k \in 1..t.n |-> Get(t, k) * NodeSubscript(n, k - 1)])
DefaultDivAssign(t, n) ==
    Store(t, [k \in 1..t.n |-> Quot(Get(t, k), NodeSubscript(n, k - 1))])

\* for( i=0; i<M; ++i ) subAssign( lhs, row( tmp, i ) )
RECURSIVE ColSubRows(_, _, _, _)
ColSubRows(t, tmp, i, M) ==
    IF i < M THEN ColSubRows(VecSubAssign(t, row(tmp, i)), tmp, i + 1, M)
    ELSE t

\* a subtraction assignment that adds the materialized result
ColSubAssignDense_Adding(t, n) ==
    IF n.dm.rows = 0 THEN t
    ELSE IF n.op = "Add" THEN ColSubRows(t, n.dm, 0, n.dm.rows)
    ELSE VecAddAssign(t, ColResult(n))

\* subAssign( DenseVector& lhs, const DMatReduceExpr& rhs )
ColSubAssignDense(t, n) ==
    IF n.dm.rows = 0 THEN t
    ELSE IF n.op = "Add" THEN ColSubRows(t, n.dm, 0, n.dm.rows)
    ELSE VecSubAssign(t, ColResult(n))

\* subAssign( SparseVector& lhs, const DMatReduceExpr& rhs )
ColSubAssignSparse(t, n) == VecSubAssign(t, ColResult(n))

\* for( i=0; i<M; ++i ) multAssign( lhs, row( tmp, i ) )
RECURSIVE ColMultRows(_, _, _, _)
ColMultRows(t, tmp, i, M) ==
    IF i < M THEN ColMultRows(VecMultAssign(t, row(tmp, i)), tmp, i + 1, M)
    ELSE t

\* a multiplication assignment that leaves the target alone when the
\* operand has no rows
ColMultAssignDense_Keeps(t, n) ==
    IF n.dm.rows = 0 THEN t
    ELSE IF n.op = "Mult" THEN ColMultRows(t, n.dm, 0, n.dm.rows)
    ELSE VecMultAssign(t, ColResult(n))

\* multAssign( DenseVector& lhs, const DMatReduceExpr& rhs )
ColMultAssignDense(t, n) ==
    IF n.dm.rows = 0 THEN reset(t)
    ELSE IF n.op = "Mult" THEN ColMultRows(t, n.dm, 0, n.dm.rows)
    ELSE VecMultAssign(t, ColResult(n))

\* multAssign( SparseVector& lhs, const DMatReduceExpr& rhs )
ColMultAssignSparse(t, n) == VecMultAssign(t, ColResult(n))

\* divAssign( Vector& lhs, const DMatReduceExpr& rhs )
ColDivAssign(t, n) == VecDivAssign(t, ColResult(n))

\* subAssign, multAssign and divAssign( Vector& lhs, const DMatReduceExpr& rhs )
\* of the row-wise node
RowSubAssign(t, n) == DefaultSubAssign(t, reduceRF(1, Evaluate(n.dm), n.op).node)
RowMultAssign(t, n) == DefaultMultAssign(t, reduceRF(1, Evaluate(n.dm), n.op).node)
RowDivAssign(t, n) == DefaultDivAssign(t, reduceRF(1, Evaluate(n.dm), n.op).node)

subAssign(t, n, reqEval) ==
    IF n.rf = 0
    THEN IF t.kind = "dense" THEN ColSubAssignDense(t, n) ELSE ColSubAssignSparse(t, n)
    ELSE IF reqEval THEN RowSubAssign(t, n) ELSE DefaultSubAssign(t, n)

multAssign(t, n, reqEval) ==
    IF n.rf = 0
    THEN IF t.kind = "dense" THEN ColMultAssignDense(t, n) ELSE ColMultAssignSparse(t, n)
    ELSE IF reqEval THEN RowMultAssign(t, n) ELSE DefaultMultAssign(t, n)

divAssign(t, n, reqEval) ==
    IF n.rf = 0 THEN ColDivAssign(t, n)
    ELSE IF reqEval THEN RowDivAssign(t, n) ELSE DefaultDivAssign(t, n)

\* what assign, addAssign, subAssign and multAssign of the column-wise node
\* into a dense target take from their operand: the rows evaluated into
\* tmp (none when M == 0UL, where they return before CT tmp( ... )), and
\* the applications of rhs.op_, M - 1 for each of the N columns where the
\* rows are folded with op
ColDenseTrace(f, n) ==
    LET M == n.dm.rows
        folded == (f = "assign") \/ (f = "addAssign" /\ n.op # "Add")
                     \/ (f = "subAssign" /\ n.op # "Add")
                     \/ (f = "multAssign" /\ n.op # "Mult")
    IN  IF M = 0 THEN [rows |-> 0, ops |-> 0]
        ELSE [rows |-> M, ops |-> IF folded THEN (M - 1) * n.dm.cols ELSE 0]

\* the five flavors of assignment behind one name
Flavors == {"assign", "addAssign", "subAssign", "multAssign", "divAssign"}

Assignment(f, t, n, reqEval) ==
    CASE f = "assign"     -> assign(t, n, reqEval)
      [] f = "addAssign"  -> addAssign(t, n, reqEval)
      [] f = "subAssign"  -> subAssign(t, n, reqEval)
      [] f = "multAssign" -> multAssign(t, n, reqEval)
      [] f = "divAssign"  -> divAssign(t, n, reqEval)

\* a parallel variant that runs the plain assignment whatever the flavor
smpAssignment_Plain(f, t, n) ==
    Assignment("assign", t, reduceRF(n.rf, Evaluate(n.dm), n.op).node, FALSE)

\* smpAssign ... smpDivAssign of either node: const RT tmp( rhs.dm_ ), then
\* the SMP assignment of reduce<RF>( tmp, rhs.op_ ), a node that needs no
\* further evaluation
smpAssignment(f, t, n) ==
    Assignment(f, t, reduceRF(n.rf, Evaluate(n.dm), n.op).node, FALSE)

\* an assignment that clears the target before it checks the sizes
CheckedAssignment_WriteFirst(f, smp, t, n, reqEval, asserts) ==
    IF asserts /\ t.n # NodeSize(n)
    THEN [status |-> "assertion", lhs |-> reset(t)]
    ELSE [status |-> "returned",
          lhs |-> IF smp THEN smpAssignment(f, t, n) ELSE Assignment(f, t, n, reqEval)]

\* an assignment from its first statement on:
\* BLAZE_INTERNAL_ASSERT( (~lhs).size() == rhs.size() ) ends the call when
\* the internal assertions are enabled (asserts) and the sizes differ; the
\* body runs otherwise
CheckedAssignment(f, smp, t, n, reqEval, asserts) ==
    IF asserts /\ t.n # NodeSize(n)
    THEN [status |-> "assertion", lhs |-> t]
    ELSE [status |-> "returned",
          lhs |-> IF smp THEN smpAssignment(f, t, n) ELSE Assignment(f, t, n, reqEval)]

\* what the body can leave of a target whose size does not match, the
\* precondition of the body being violated: anything
UndefinedTargets(t) ==
    { t, reset(t), Store(t, [k \in 1..t.n |-> Garbage]) }

(***************************************************************************)
(* Specification of the nodes: the operand, the operation and a target     *)
(* with prior contents are drawn from bounded sets; a call applies one     *)
(* operation of reduce<RF>( dm, op ) or the total reduction.               *)
(***************************************************************************)
ReductionFlags == {0, 1}
TargetKinds == {"dense", "sparse"}

\* prior contents of a target of size n: a ramp, and values with zeros between
Fills(n) == { [k \in 1..n |-> k], [k \in 1..n |-> IF k % 2 = 0 THEN 0 ELSE 0 - 3 * k] }

TargetsFor(m) ==
    UNION { { Store([kind |-> kind, n |-> n, e |-> <<>>], f) :
                kind \in TargetKinds, f \in Fills(n) } : n \in {m.rows, m.cols} }

\* targets whose size need not be the one of the expression
AnyTargetsFor(m) ==
    { Store([kind |-> kind, n |-> n, e |-> <<>>], [k \in 1..n |-> k]) :
        kind \in TargetKinds, n \in {m.rows, m.cols + 1} }

\* the access indices tried: the valid ones and some beyond the size
Indices == 0..((IF MaxNodeRows > MaxNodeCols THEN MaxNodeRows ELSE MaxNodeCols) + 1)

NoTarget == [kind |-> "none", n |-> 0, e |-> <<>>]

Init ==
    /\ dm \in Matrices(MaxNodeRows, MaxNodeCols)
    /\ op \in Ops
    /\ lhs = NoTarget
    /\ res = NoRes
    /\ traits = NoTraits
    /\ sel = NoSel

\* reduce( dm, op )
TotalReduce ==
    \E c \in SimdSettings :
        /\ res = NoRes
        /\ res' = ReduceResult("reduce", op, c, reduce(dm, op, c.simd, c.w, c.pad))
        /\ UNCHANGED <<dm, op, lhs, traits, sel>>

\* reduce<RF>( dm, op )[index], with a valid index
Subscript ==
    \E rf \in ReductionFlags, index \in Indices :
        LET x == reduceRF(rf, dm, op)
        IN  /\ res = NoRes
            /\ index < NodeSize(x.node)
            /\ res' = [kind |-> "subscript", rf |-> rf, index |-> index, tf |-> x.tf,
                       v |-> NodeSubscript(x.node, index)]
            /\ UNCHANGED <<dm, op, lhs, traits, sel>>

\* reduce<RF>( dm, op ).at( index ), with any index
At ==
    \E rf \in ReductionFlags, index \in Indices :
        LET x == reduceRF(rf, dm, op)
        IN  /\ res = NoRes
            /\ res' = [kind |-> "at", rf |-> rf, index |-> index,
                       out |-> NodeAt(x.node, index)]
            /\ UNCHANGED <<dm, op, lhs, traits, sel>>

\* reduce<RF>( dm, op ).size()
Size ==
    \E rf \in ReductionFlags :
        LET x == reduceRF(rf, dm, op)
        IN  /\ res = NoRes
            /\ res' = [kind |-> "size", rf |-> rf, tf |-> x.tf, v |-> NodeSize(x.node)]
            /\ UNCHANGED <<dm, op, lhs, traits, sel>>

Assigned(flavor, rf, reqEval, x, t) ==
    [kind |-> "assigned", flavor |-> flavor, rf |-> rf, noderf |-> x.node.rf,
     reqEval |-> reqEval, old |-> Contents(t)]

\* assign( lhs, reduce<RF>( dm, op ) ) into a target t of matching size
\* with prior contents
Assign ==
    \E rf \in ReductionFlags, reqEval \in BOOLEAN, t \in TargetsFor(dm) :
        LET x == reduceRF(rf, dm, op)
        IN  /\ res = NoRes
            /\ t.n = NodeSize(x.node)
            /\ lhs' = assign(t, x.node, reqEval)
            /\ res' = Assigned("assign", rf, reqEval, x, t)
            /\ UNCHANGED <<dm, op, traits, sel>>

\* an addition assignment that also clears the elements of its operand
AddAssign_IntoOperand ==
    \E rf \in ReductionFlags, reqEval \in BOOLEAN, t \in TargetsFor(dm) :
        LET x == reduceRF(rf, dm, op)
        IN  /\ res = NoRes
            /\ t.n = NodeSize(x.node)
            /\ lhs' = addAssign(t, x.node, reqEval)
            /\ dm' = [dm EXCEPT !.v = [k \in DOMAIN dm.v |-> ZeroElement]]
            /\ res' = Assigned("addAssign", rf, reqEval, x, t)
            /\ UNCHANGED <<op, traits, sel>>

\* addAssign( lhs, reduce<RF>( dm, op ) ) into a target t of matching size
\* with prior contents
AddAssign ==
    \E rf \in ReductionFlags, reqEval \in BOOLEAN, t \in TargetsFor(dm) :
        LET x == reduceRF(rf, dm, op)
        IN  /\ res = NoRes
            /\ t.n = NodeSize(x.node)
            /\ lhs' = addAssign(t, x.node, reqEval)
            /\ res' = Assigned("addAssign", rf, reqEval, x, t)
            /\ UNCHANGED <<dm, op, traits, sel>>

\* the divisors of a division assignment are not zero
NoZero(x) == \A k \in 1..NodeSize(x.node) : NodeSubscript(x.node, k - 1) # ZeroElement

\* subAssign( lhs, reduce<RF>( dm, op ) )
SubAssign ==
    \E rf \in ReductionFlags, reqEval \in BOOLEAN, t \in TargetsFor(dm) :
        LET x == reduceRF(rf, dm, op)
        IN  /\ res = NoRes
            /\ t.n = NodeSize(x.node)
            /\ lhs' = subAssign(t, x.node, reqEval)
            /\ res' = Assigned("subAssign", rf, reqEval, x, t)
            /\ UNCHANGED <<dm, op, traits, sel>>

\* multAssign( lhs, reduce<RF>( dm, op ) )
MultAssign ==
    \E rf \in ReductionFlags, reqEval \in BOOLEAN, t \in TargetsFor(dm) :
        LET x == reduceRF(rf, dm, op)
        IN  /\ res = NoRes
            /\ t.n = NodeSize(x.node)
            /\ lhs' = multAssign(t, x.node, reqEval)
            /\ res' = Assigned("multAssign", rf, reqEval, x, t)
            /\ UNCHANGED <<dm, op, traits, sel>>

\* divAssign( lhs, reduce<RF>( dm, op ) )
DivAssign ==
    \E rf \in ReductionFlags, reqEval \in BOOLEAN, t \in TargetsFor(dm) :
        LET x == reduceRF(rf, dm, op)
        IN  /\ res = NoRes
            /\ t.n = NodeSize(x.node)
            /\ NoZero(x)
            /\ lhs' = divAssign(t, x.node, reqEval)
            /\ res' = Assigned("divAssign", rf, reqEval, x, t)
            /\ UNCHANGED <<dm, op, traits, sel>>

\* smpAssign ... smpDivAssign( lhs, reduce<RF>( dm, op ) ) with matching sizes
SMPAssign ==
    \E f \in Flavors, rf \in ReductionFlags, asserts \in BOOLEAN, t \in TargetsFor(dm) :
        LET x == reduceRF(rf, dm, op)
        IN  /\ res = NoRes
            /\ t.n = NodeSize(x.node)
            /\ f = "divAssign" => NoZero(x)
            /\ lhs' = CheckedAssignment(f, TRUE, t, x.node, TRUE, asserts).lhs
            /\ res' = [kind |-> "smpAssigned", flavor |-> f, rf |-> rf,
                       noderf |-> x.node.rf, old |-> Contents(t)]
            /\ UNCHANGED <<dm, op, traits, sel>>

\* any flavor of assignment into a target whose size differs from the
\* size of the expression
MismatchedAssign ==
    \E f \in Flavors, smp \in BOOLEAN, rf \in ReductionFlags, asserts \in BOOLEAN,
       t \in AnyTargetsFor(dm) :
        LET x == reduceRF(rf, dm, op)
        IN  /\ res = NoRes
            /\ t.n # NodeSize(x.node)
            /\ IF asserts
               THEN LET out == CheckedAssignment(f, smp, t, x.node, ~smp, asserts)
                    IN  /\ lhs' = out.lhs
                        /\ res' = [kind |-> "mismatch", flavor |-> f, smp |-> smp,
                                   rf |-> rf, asserts |-> asserts,
                                   status |-> out.status, old |-> t]
               ELSE /\ lhs' \in UndefinedTargets(t)
                    /\ res' = [kind |-> "mismatch", flavor |-> f, smp |-> smp,
                               rf |-> rf, asserts |-> asserts,
                               status |-> "undefined", old |-> t]
            /\ UNCHANGED <<dm, op, traits, sel>>

\* reduce<RF>( dm, op ).canSMPAssign()
CanSMPAssign ==
    \E rf \in ReductionFlags, operandCan \in BOOLEAN, th \in Thresholds :
        LET x == reduceRF(rf, dm, op)
        IN  /\ res = NoRes
            /\ res' = [kind |-> "canSMPAssign", rf |-> rf, operandCan |-> operandCan,
                       th |-> th, v |-> NodeCanSMPAssign(x.node, operandCan, th)]
            /\ UNCHANGED <<dm, op, lhs, traits, sel>>

\* operand(), operation(), canAlias(), isAliased() and isAligned() of
\* reduce<RF>( dm, op )
QueryNode ==
    \E rf \in ReductionFlags, q \in Queries, operandAliased \in BOOLEAN :
        LET x == reduceRF(rf, dm, op)
        IN  /\ res = NoRes
            /\ res' = [kind |-> "query", rf |-> rf, q |-> q,
                       operandAliased |-> operandAliased,
                       out |-> Value(Query(q, x.node, operandAliased))]
            /\ UNCHANGED <<dm, op, lhs, traits, sel>>

\* reduce<RF>( dm, op ).begin(), where the expression is a row-wise node
Begin ==
    \E rf \in ReductionFlags :
        LET x == reduceRF(rf, dm, op)
        IN  /\ res = NoRes
            /\ x.node.rf = 1
            /\ res' = [kind |-> "iterator", rf |-> rf, steps |-> 0,
                       it |-> begin(x.node)]
            /\ UNCHANGED <<dm, op, lhs, traits, sel>>

\* ++it on an iterator that has not yet reached end()
Advance ==
    /\ res.kind = "iterator"
    /\ ~IterEqual(res.it, end(reduceRF(res.rf, dm, op).node))
    /\ res' = [res EXCEPT !.it = PreIncrement(@), !.steps = @ + 1]
    /\ UNCHANGED <<dm, op, lhs, traits, sel>>

\* the caller takes the outcome of the call and lets go of the target
Taken ==
    /\ res # NoRes
    /\ res' = NoRes
    /\ lhs' = NoTarget
    /\ UNCHANGED <<dm, op, traits, sel>>

Next ==
    \/ TotalReduce \/ Subscript \/ At \/ Size \/ CanSMPAssign \/ QueryNode
    \/ Begin \/ Advance
    \/ Assign \/ AddAssign \/ SubAssign \/ MultAssign \/ DivAssign
    \/ SMPAssign
    \/ Taken

Spec == Init /\ [][Next]_vars

\* the assignments that violate the size precondition, on their own
NextMismatch == MismatchedAssign \/ Taken

SpecMismatch == Init /\ [][NextMismatch]_vars

(***************************************************************************)
(* Properties of the total reduction.                                      *)
(***************************************************************************)
IsTotal == res.kind \in {"reduce", "sum"}
KernelRun == res.path[Len(res.path)]

\* the naive double loop that adds every element M(i,j) once
RECURSIVE NaiveRowSum(_, _, _)
NaiveRowSum(m, i, j) ==
    IF j >= m.cols THEN 0 ELSE Elem(m, i, j) + NaiveRowSum(m, i, j + 1)
RECURSIVE NaiveSumFrom(_, _)
NaiveSumFrom(m, i) ==
    IF i >= m.rows THEN 0 ELSE NaiveRowSum(m, i, 0) + NaiveSumFrom(m, i + 1)
NaiveSum(m) == NaiveSumFrom(m, 0)

\* C1: sum(M) returns the value of the naive double loop over all elements
\* of M, for every size and whichever kernel is selected.
C1_SumIsNaiveSum == res.kind = "sum" => res.v = NaiveSum(dm)

\* C1 witness: the addition kernel has summed a matrix with a four-row block,
\* a single last row, two vector chunks per row and a scalar remainder column
C1_Witness ==
    /\ res.kind = "sum"
    /\ res.path = <<"simdAdd">>
    /\ dm.rows = 5 /\ dm.cols = 5
    /\ res.w = 2 /\ ~res.pad
    /\ res.v = 26

\* C5: the total reduction of a matrix with 0 rows or 0 columns returns the
\* zero element for every operation and kernel, applies the operation zero
\* times and reads no element.
C5_EmptyIsZero ==
    (IsTotal /\ (dm.rows = 0 \/ dm.cols = 0))
        => (res.v = ZeroElement /\ res.ops = 0 /\ res.rd = <<>>)

\* C5 witness: a product over a matrix with rows but no columns, in the
\* generic SIMD kernel
C5_Witness ==
    /\ res.kind = "reduce" /\ res.op = "Mult"
    /\ dm.rows = 3 /\ dm.cols = 0
    /\ KernelRun = "simd"
    /\ res.v = ZeroElement

StoredColumn(m, j) == [i \in 1..m.rows |-> m.v[(i - 1) * m.cols + j + 1]]
StoredRow(m, i) == [j \in 1..m.cols |-> m.v[i * m.cols + j]]

\* the elements of a vector expression, by operator[]
Elements(x) == [k \in 1..NodeSize(x.node) |-> NodeSubscript(x.node, k - 1)]

ExampleMatrix == [rows |-> 2, cols |-> 3, so |-> "rowMajor", v |-> <<1, 0, 2, 1, 3, 4>>]

\* C2: for a row-major matrix, element j of the column-wise node is the
\* reduction of column j, element i of the row-wise node is the reduction
\* of row i, and the sizes are the column count and the row count; sum<0>
\* of {{1,0,2},{1,3,4}} is {2,3,6} and prod<1> of it is {0,12}.
C2_PartialReductions ==
    /\ (dm.so = "rowMajor" /\ res.kind = "subscript" /\ res.rf = 0)
          => res.v = dvecreduce(StoredColumn(dm, res.index), op)
    /\ (dm.so = "rowMajor" /\ res.kind = "subscript" /\ res.rf = 1)
          => res.v = dvecreduce(StoredRow(dm, res.index), op)
    /\ (dm.so = "rowMajor" /\ res.kind = "size")
          => res.v = IF res.rf = 0 THEN dm.cols ELSE dm.rows
    /\ Elements(sumRF(0, ExampleMatrix)) = <<2, 3, 6>>
    /\ Elements(reduceRF(1, ExampleMatrix, "Mult")) = <<0, 12>>

\* C2 witness: the product of the second column of a 3x2 row-major matrix
C2_Witness ==
    /\ res.kind = "subscript" /\ res.rf = 0 /\ res.index = 1
    /\ dm.so = "rowMajor" /\ dm.rows = 3 /\ dm.cols = 2
    /\ op = "Mult" /\ res.v = 2

\* the row-major matrix holding the same logical elements as m
RowMajorOf(m) == Evaluate(m)

\* the partial reductions of a column-major matrix agree with those of the
\* row-major matrix of the same elements: same orientation, size and elements
SamePartial ==
    /\ (dm.so = "columnMajor" /\ res.kind = "subscript")
          => /\ res.v = NodeSubscript(reduceRF(res.rf, RowMajorOf(dm), op).node, res.index)
             /\ res.tf = reduceRF(res.rf, RowMajorOf(dm), op).tf
    /\ (dm.so = "columnMajor" /\ res.kind = "size")
          => /\ res.v = NodeSize(reduceRF(res.rf, RowMajorOf(dm), op).node)
             /\ res.tf = reduceRF(res.rf, RowMajorOf(dm), op).tf

\* the total reduction of a column-major matrix agrees with the one of the
\* row-major matrix of the same elements, for the operations in ops
SameTotal(ops) ==
    (dm.so = "columnMajor" /\ res.kind = "reduce" /\ op \in ops)
        => res.v = reduce(RowMajorOf(dm), op, res.simd, res.w, res.pad).v

LogicalSize(rf) == IF rf = 0 THEN dm.cols ELSE dm.rows

\* C4: at(index) raises for every index >= size() and for every index below
\* it returns the value of operator[](index) without raising.
C4_CheckedAccess ==
    res.kind = "at"
        => /\ res.index >= LogicalSize(res.rf) => res.out = Raised
           /\ res.index < LogicalSize(res.rf)
                 => res.out = Value(NodeSubscript(reduceRF(res.rf, dm, op).node, res.index))

\* C4 witness: index 0 of the column-wise node over a matrix without columns
C4_Witness ==
    /\ res.kind = "at" /\ res.rf = 0 /\ res.index = 0
    /\ dm.so = "rowMajor" /\ dm.rows = 2 /\ dm.cols = 0
    /\ res.out = Raised

\* C7: addAssign leaves target[k] = target_old[k] + r[k] for every k, for
\* both axes, every operation and dense and sparse targets.
C7_AddAssign ==
    (res.kind = "assigned" /\ res.flavor = "addAssign")
        => /\ lhs.n = Len(res.old)
           /\ \A k \in 1..lhs.n :
                 Get(lhs, k) = res.old[k] + Elements(reduceRF(res.rf, dm, op))[k]
           /\ \A k \in DOMAIN lhs.e : lhs.kind = "sparse" => lhs.e[k] # ZeroElement

\* C7 witness: the row-by-row path has added a 3x2 matrix to a dense target
C7_Witness ==
    /\ res.kind = "assigned" /\ res.flavor = "addAssign" /\ res.rf = 0
    /\ op = "Add" /\ dm.so = "rowMajor" /\ dm.rows = 3 /\ dm.cols = 2
    /\ lhs.kind = "dense" /\ res.old = <<1, 2>> /\ Contents(lhs) = <<5, 5>>

(***************************************************************************)
(* Compile-time dispatch.  The types of a reduction fix the storage order  *)
(* of the operand, the simdEnabled flag of its composite type, the shape   *)
(* of the operation (its simdEnabled member, if any, and whether it has a  *)
(* load member), the operation type itself and the operand's smpAssignable *)
(* flag and RequiresEvaluation trait.                                      *)
(***************************************************************************)
\* an operation's simdEnabled member: absent, a constant, or a function
\* returning bool; value is the constant, returns what the function returns
NoMember == [form |-> "none", value |-> FALSE, returns |-> FALSE]
SimdEnabledMembers ==
    { NoMember } \cup
    { [form |-> "constant", value |-> b, returns |-> FALSE] : b \in BOOLEAN } \cup
    { [form |-> "function", value |-> FALSE, returns |-> b] : b \in BOOLEAN }

\* the shapes an operation type can have: Add has a simdEnabled function and
\* a load member, a custom operation is free
OpShapes(o) ==
    IF o = "Add"
    THEN { [simdEnabled |-> m, hasLoad |-> TRUE] :
             m \in { x \in SimdEnabledMembers : x.form = "function" } }
    ELSE { [simdEnabled |-> m, hasLoad |-> l] :
             m \in SimdEnabledMembers, l \in BOOLEAN }

HasSIMDEnabled_v(shape) == shape.simdEnabled.form # "none"
HasLoad(shape) == shape.hasLoad

\* UseSIMDEnabledFlag::value: test( bool ) returns the constant,
\* test( bool (*)() ) calls the function
UseSIMDEnabledFlag(shape) ==
    CASE shape.simdEnabled.form = "constant" -> shape.simdEnabled.value
      [] shape.simdEnabled.form = "function" -> shape.simdEnabled.returns

DMatReduceExprHelper_IgnoreCT(ctSimd, shape) ==
    IF HasSIMDEnabled_v(shape) THEN UseSIMDEnabledFlag(shape) ELSE HasLoad(shape)

\* DMatReduceExprHelper<MT,OP>::value
DMatReduceExprHelper(ctSimd, shape) ==
    ctSimd /\ (IF HasSIMDEnabled_v(shape) THEN UseSIMDEnabledFlag(shape) ELSE HasLoad(shape))

UseSMPAssign_v_Either(rf, smpA, reqEval) == ~smpA \/ reqEval

\* UseSMPAssign_v of DMatReduceExpr<rf,MT,OP>; the row-wise node goes
\* through its useAssign switch
useAssign(reqEval) == reqEval
UseSMPAssign_v(rf, smpA, reqEval) ==
    IF rf = 0 THEN ~smpA /\ reqEval ELSE ~smpA /\ useAssign(reqEval)

\* DMatReduceExpr<rf,MT,OP>::smpAssignable
smpAssignable(rf, smpA) == smpA

SMPFlavors == {"smpAssign", "smpAddAssign", "smpSubAssign", "smpMultAssign", "smpDivAssign"}

\* the overload a call of an SMP assignment resolves to: the one of the
\* expression when its condition holds, the default one otherwise
SMPOverload(rf, smpA, reqEval) ==
    IF UseSMPAssign_v(rf, smpA, reqEval) THEN "expression" ELSE "default"

TypeSets ==
    UNION { { [kind |-> "types", so |-> so, ctSimd |-> c, op |-> o, shape |-> sh,
               smpAssignable |-> a, requiresEvaluation |-> e] :
                 so \in StorageOrders, c \in BOOLEAN, sh \in OpShapes(o),
                 a \in BOOLEAN, e \in BOOLEAN } : o \in Ops }

InitDispatch ==
    /\ traits \in TypeSets
    /\ dm = MatrixOf(0, 0, traits.so, 0, 0, 0)
    /\ op = traits.op
    /\ lhs = NoTarget
    /\ res = NoRes
    /\ sel = NoSel

\* instantiate DMatReduceExprHelper<MT,OP>
ResolveHelper ==
    /\ sel = NoSel
    /\ sel' = [kind |-> "helper",
               value |-> DMatReduceExprHelper(traits.ctSimd, traits.shape)]
    /\ UNCHANGED <<dm, op, lhs, res, traits>>

\* resolve the call dmatreduce( dm, op ); final is the kernel that runs in
\* the end, after a delegation to the transpose
ResolveKernel ==
    LET simd == DMatReduceExprHelper(traits.ctSimd, traits.shape)
        k    == SelectKernel(traits.so, simd, traits.op)
    IN  /\ sel = NoSel
        /\ sel' = [kind |-> "kernel", simd |-> simd,
                   best |-> Best(traits.so, simd, traits.op),
                   kernel |-> k,
                   final |-> IF k = "transpose"
                             THEN SelectKernel("rowMajor", simd, traits.op)
                             ELSE k]
        /\ UNCHANGED <<dm, op, lhs, res, traits>>

\* resolve a call of an SMP assignment of a reduction node
ResolveSMP ==
    \E rf \in ReductionFlags, f \in SMPFlavors :
        /\ sel = NoSel
        /\ sel' = [kind |-> "smp", rf |-> rf, flavor |-> f,
                   overload |-> SMPOverload(rf, traits.smpAssignable,
                                            traits.requiresEvaluation),
                   smpAssignable |-> smpAssignable(rf, traits.smpAssignable)]
        /\ UNCHANGED <<dm, op, lhs, res, traits>>

Resolved ==
    /\ sel # NoSel
    /\ sel' = NoSel
    /\ UNCHANGED <<dm, op, lhs, res, traits>>

NextDispatch == ResolveHelper \/ ResolveKernel \/ ResolveSMP \/ Resolved

SpecDispatch == InitDispatch /\ [][NextDispatch]_vars

C9_SMPStrategy ==
    sel.kind = "smp"
        => /\ sel.overload = "expression"
                 <=> (~traits.smpAssignable /\ traits.requiresEvaluation)
           /\ sel.overload \in {"expression", "default"}
           /\ sel.smpAssignable = traits.smpAssignable

\* C9 witness: the row-wise node over an operand that is not SMP-assignable
\* and requires evaluation
C9_Witness ==
    /\ sel.kind = "smp" /\ sel.rf = 1 /\ sel.flavor = "smpDivAssign"
    /\ ~traits.smpAssignable /\ traits.requiresEvaluation
    /\ sel.overload = "expression"

\* C10: the SIMD decision is true exactly when the composite type is
\* SIMD-enabled and the operation's simdEnabled member, where it has one,
\* is true (as a constant or as the result of the function), or, where it
\* has none, the operation has a load member; every combination yields a
\* decision, and with a false decision the scalar kernel runs.
C10_SIMDDecision ==
    /\ sel.kind = "helper"
          => /\ sel.value \in BOOLEAN
             /\ sel.value <=>
                   /\ traits.ctSimd
                   /\ \/ traits.shape.simdEnabled.form = "constant"
                            /\ traits.shape.simdEnabled.value
                      \/ traits.shape.simdEnabled.form = "function"
                            /\ traits.shape.simdEnabled.returns
                      \/ traits.shape.simdEnabled.form = "none"
                            /\ traits.shape.hasLoad
    /\ (sel.kind = "kernel" /\ ~sel.simd) => sel.final = "scalar"

\* C10 witness: a SIMD-enabled operand and an operation whose simdEnabled
\* function returns false although it has a load member
C10_Witness ==
    /\ sel.kind = "helper" /\ traits.ctSimd
    /\ traits.shape.simdEnabled.form = "function"
    /\ ~traits.shape.simdEnabled.returns /\ traits.shape.hasLoad
    /\ ~sel.value

(***************************************************************************)
(* Properties of the queries, the frame and the failures of the nodes.     *)
(***************************************************************************)
\* C11: canSMPAssign() is true exactly when the operand's canSMPAssign() is
\* true or size() is strictly greater than the threshold; at the threshold,
\* with an operand that cannot, it is false.
C11_CanSMPAssign ==
    res.kind = "canSMPAssign"
        => /\ res.v <=> (res.operandCan \/ LogicalSize(res.rf) > res.th)
           /\ (~res.operandCan /\ LogicalSize(res.rf) = res.th) => ~res.v

\* C11 witness: the row-wise node of a matrix with two rows, at threshold two
C11_Witness ==
    /\ res.kind = "canSMPAssign" /\ res.rf = 1 /\ dm.so = "rowMajor"
    /\ dm.rows = 2 /\ res.th = 2 /\ ~res.operandCan /\ ~res.v

\* C12: no operation of a reduction node changes its operand: in every step
\* the dimensions, the storage order and every element of the operand are
\* the same before and after, and so is the operation; only the target and
\* the outcome of the call are written.
C12_OperandUnchanged == [][dm' = dm /\ op' = op]_vars

\* C12 witness: an addition assignment has written a sparse target from a
\* 3x3 operand
C12_Witness ==
    /\ res.kind = "assigned" /\ res.flavor = "addAssign"
    /\ dm.rows = 3 /\ dm.cols = 3 /\ lhs.kind = "sparse"
    /\ Contents(lhs) # res.old

\* C13 as stated: in every flavor of assignment a size mismatch fails the
\* size check as a fatal assertion and leaves the target unmodified.
C13_Original ==
    res.kind = "mismatch" => (res.status = "assertion" /\ lhs = res.old)

\* C13 amended: the size check is the first statement of every flavor of
\* assignment; with the internal assertions enabled a size mismatch fails it
\* before any element of the target is written and the target is left
\* unmodified; with the internal assertions compiled out nothing is checked
\* and the effect of a mismatched assignment on the target is undefined.
C13_SizeCheckFirst ==
    res.kind = "mismatch"
        => /\ res.asserts => (res.status = "assertion" /\ lhs = res.old)
           /\ ~res.asserts => res.status = "undefined"
           /\ lhs.n = res.old.n /\ lhs.kind = res.old.kind

\* C13 witness: an SMP division assignment into a sparse target of size two
\* from a column-wise reduction of size three, with the assertions enabled
C13_Witness ==
    /\ res.kind = "mismatch" /\ res.flavor = "divAssign" /\ res.smp /\ res.rf = 0
    /\ dm.so = "rowMajor" /\ dm.rows = 2 /\ dm.cols = 3
    /\ res.asserts /\ res.status = "assertion"
    /\ lhs.kind = "sparse" /\ lhs.n = 2 /\ Contents(lhs) = <<1, 2>>

\* C14: at() with an index out of range is the only operation of a node that
\* ends in a failure raised to the caller: at() raises exactly when the index
\* is not below the size, and the queries, operator[] in range, begin() and
\* the increments up to end(), the total reduction (of empty matrices too)
\* and every assignment between equal sizes complete with a result.
C14_OnlyAtRaises ==
    /\ res.kind = "at" => (res.out = Raised <=> res.index >= LogicalSize(res.rf))
    /\ res.kind = "query" => ~res.out.raised
    /\ res.kind \in {"reduce", "subscript", "size", "canSMPAssign"}
          => "v" \in DOMAIN res
    /\ res.kind = "iterator" => res.it.index <= LogicalSize(res.rf)
    /\ res.kind \in {"assigned", "smpAssigned"}
          => lhs.n = LogicalSize(res.rf) /\ DOMAIN Contents(lhs) = 1..lhs.n

\* C14 witness: the row-wise node over a 3x2 matrix refuses index 3
C14_Witness ==
    /\ res.kind = "at" /\ res.rf = 1 /\ res.index = 3
    /\ dm.so = "rowMajor" /\ dm.rows = 3 /\ dm.cols = 2
    /\ res.out = Raised

\* C16: the iterator of the row-wise node is a cursor of which only the index
\* changes: begin() stands at index 0 and end() at index size(); at an index
\* below the size it dereferences to the reduction of that row, which is the
\* element of the node; begin() incremented size() times, and no fewer,
\* equals end(); a copy equals the original and dereferences to the same.
C16_IteratorCursor ==
    res.kind = "iterator" =>
        LET n == reduceRF(res.rf, dm, op).node
            it == res.it
        IN  /\ begin(n).index = 0 /\ end(n).index = NodeSize(n)
            /\ it = ConstIterator(n.dm, res.steps, n.op)
            /\ res.steps < NodeSize(n)
                  => /\ Deref(it) = dvecreduce(StoredRow(n.dm, res.steps), n.op)
                     /\ Deref(it) = NodeSubscript(n, res.steps)
                     /\ Deref(IterCopy(it)) = Deref(it)
            /\ IterEqual(it, end(n)) <=> res.steps = NodeSize(n)
            /\ IterEqual(IterCopy(it), it)

\* C16 witness: begin() of the row-wise node over a 3x2 matrix, incremented
\* three times
C16_Witness ==
    /\ res.kind = "iterator" /\ res.rf = 1 /\ res.steps = 3
    /\ dm.so = "rowMajor" /\ dm.rows = 3 /\ dm.cols = 2
    /\ IterEqual(res.it, end(reduceRF(1, dm, op).node))

(***************************************************************************)
(* Properties of the assignments.                                          *)
(***************************************************************************)
\* the targets of the size of t, with any prior contents and of either kind
SameSizeTargets(t) == { t2 \in TargetsFor(dm) : t2.n = t.n }

\* C15: the plain assignment discards the prior contents of its target: run
\* on any other target of the same size it ends with the same contents, for
\* both axes, and for the column-wise node over a matrix without rows these
\* contents are all zero.
C15_AssignDiscardsPrior ==
    (res.kind = "assigned" /\ res.flavor = "assign") =>
        LET n == reduceRF(res.rf, dm, op).node
        IN  /\ \A t2 \in SameSizeTargets(lhs) :
                  Contents(assign(t2, n, res.reqEval)) = Contents(lhs)
            /\ (n.rf = 0 /\ n.dm.rows = 0)
                  => Contents(lhs) = [k \in 1..lhs.n |-> ZeroElement]

\* C15 witness: the column-wise assignment over a 0x2 matrix into a dense
\* target that held <<1, 2>>
C15_Witness ==
    /\ res.kind = "assigned" /\ res.flavor = "assign" /\ res.rf = 0
    /\ dm.so = "rowMajor" /\ dm.rows = 0 /\ dm.cols = 2
    /\ lhs.kind = "dense" /\ res.old = <<1, 2>>
    /\ Contents(lhs) = <<0, 0>>

\* C19: for an associative and commutative operation and a matrix with at
\* least one row, the column-wise assignment into a dense target leaves in
\* element j the operation folded from the left over column j, which is
\* element j of reduce<0>( dm, op ).
C19_ColumnwiseAssign ==
    (/\ res.kind = "assigned" /\ res.flavor = "assign" /\ res.noderf = 0
     /\ lhs.kind = "dense" /\ op \in AssocCommOps) =>
        LET n == reduceRF(res.rf, dm, op).node
        IN  n.dm.rows >= 1 =>
               \A j \in 0..(lhs.n - 1) :
                   /\ Contents(lhs)[j + 1] = dvecreduce(StoredColumn(n.dm, j), op)
                   /\ Contents(lhs)[j + 1] = NodeSubscript(n, j)

\* C19 witness: the column-wise product of a 3x2 matrix in a dense target
C19_Witness ==
    /\ res.kind = "assigned" /\ res.flavor = "assign" /\ res.rf = 0
    /\ dm.so = "rowMajor" /\ dm.rows = 3 /\ dm.cols = 2 /\ op = "Mult"
    /\ lhs.kind = "dense" /\ res.old = <<1, 2>>
    /\ Contents(lhs) # <<0, 0>>

\* the target of a finished assignment as it was before the assignment
PriorTarget == Store([kind |-> lhs.kind, n |-> lhs.n, e |-> <<>>], res.old)

\* C20: the column-wise subtraction, multiplication and division assignments
\* leave in element j the prior element minus, times and divided by element j
\* of the reduction; the subtraction with Add and the multiplication with
\* Mult, which run row by row, end as the assignments of the materialized
\* reduction do.
C20_CompoundAssign ==
    (res.kind = "assigned" /\ res.noderf = 0) =>
        LET n == reduceRF(res.rf, dm, op).node
            r == [k \in 1..lhs.n |-> NodeSubscript(n, k - 1)]
            t == PriorTarget
        IN  /\ res.flavor = "subAssign"
                  => /\ Contents(lhs) = [k \in 1..lhs.n |-> res.old[k] - r[k]]
                     /\ ColSubAssignDense(t, n) = VecSubAssign(t, ColResult(n))
            /\ res.flavor = "multAssign"
                  => /\ Contents(lhs) = [k \in 1..lhs.n |-> res.old[k] * r[k]]
                     /\ ColMultAssignDense(t, n) = VecMultAssign(t, ColResult(n))
            /\ res.flavor = "divAssign"
                  => Contents(lhs) = [k \in 1..lhs.n |-> Quot(res.old[k], r[k])]

\* C20 witness: the column-wise sum of a 3x2 matrix subtracted row by row
\* from a dense target that held <<1, 2>>
C20_Witness ==
    /\ res.kind = "assigned" /\ res.flavor = "subAssign" /\ res.rf = 0
    /\ dm.so = "rowMajor" /\ dm.rows = 3 /\ dm.cols = 2 /\ op = "Add"
    /\ lhs.kind = "dense" /\ res.old = <<1, 2>>
    /\ Contents(lhs) # res.old

(***************************************************************************)
(* Equivalence of the kernels of the total reduction.                      *)
(***************************************************************************)
\* the row-major matrix the kernels of a call run on
KernelMatrix == IF dm.so = "rowMajor" THEN dm ELSE trans(dm)

\* the elements of a row-major matrix folded from the left, row after row
NaiveFold(m, o) == dvecreduce(m.v, o)

\* C17: for an associative and commutative operation the scalar kernel, the
\* generic SIMD kernel with every SIMD width, with and without padding, and,
\* for Add, the SIMD kernel of the summation return for the same matrix the
\* same value: the elements folded from the left in row-major order.
C17_KernelsAgree ==
    (res.kind = "reduce" /\ res.op \in AssocCommOps) =>
        LET m == KernelMatrix
            naive == NaiveFold(m, res.op)
        IN  /\ res.v = naive
            /\ dmatreduce_scalar(m, res.op).v = naive
            /\ \A w \in SimdWidths, pad \in BOOLEAN :
                  /\ dmatreduce_simd(m, res.op, w, pad).v = naive
                  /\ res.op = "Add" => dmatreduce_simd_add(m, w, pad).v = naive

\* C17 witness: the generic SIMD kernel of width 4 has multiplied the
\* elements of a 3x5 matrix, whose column count is no multiple of the width
C17_Witness ==
    /\ res.kind = "reduce" /\ res.op = "Mult" /\ KernelRun = "simd" /\ res.w = 4
    /\ dm.so = "rowMajor" /\ dm.rows = 3 /\ dm.cols = 5
    /\ res.v = 2

(***************************************************************************)
(* The loops of the kernels and of the column-wise assignment, statement   *)
(* by statement.  res holds the call in flight: the kernel, the dimensions *)
(* M and N, the SIMD width w, the padding pad of the operand, the flag      *)
(* remainder, jpos, the row loop the                                       *)
(* call stands in (phase), the position within it (pc) and the indices i,  *)
(* j and k.  The values computed play no role here.                        *)
(***************************************************************************)
LoopKernels == {"scalar", "simd", "simdAdd", "assign"}

\* the operands of the loops: row-major matrices of every size
LoopMatrices ==
    { MatrixOf(M, N, "rowMajor", 0, 0, 1) : M \in 0..MaxRows, N \in 0..MaxCols }

\* whether a call of the kernel k runs its vectorized rows: the generic SIMD
\* kernel if( N >= SIMDSIZE ), the kernel of the summation
\* if( !remainder || N >= SIMDSIZE )
Vectorized(k, remainder, N, w) ==
    CASE k = "simd" -> N >= w
      [] k = "simdAdd" -> ~remainder \/ N >= w
      [] OTHER -> FALSE

\* a chunk end that leaves the columns right of the last full chunk out
\* also when there is no remainder loop
LoopEnd_Chunks(k, remainder, N, w) == ChunkEnd(N, w)

\* const size_t jpos( ... )
LoopEnd(k, remainder, N, w) ==
    IF k = "simdAdd" /\ ~remainder THEN N ELSE ChunkEnd(N, w)

\* the call as it stands after the early returns and the declarations
EnterLoops(k, m, w, pad) ==
    LET M == m.rows
        N == m.cols
        remainder == IF k = "simdAdd" THEN ~pad ELSE TRUE
        vec == Vectorized(k, remainder, N, w)
        returns == CASE k = "assign" -> M = 0
                     [] k = "scalar" -> (M = 0 \/ N = 0) \/ (M = 1 /\ N = 1)
                     [] OTHER -> M = 0 \/ N = 0
        run == [kind |-> "loop", kernel |-> k, M |-> M, N |-> N, w |-> w,
                pad |-> pad, remainder |-> remainder, vec |-> vec,
                jpos |-> IF vec THEN LoopEnd(k, remainder, N, w) ELSE 0,
                phase |-> "done", pc |-> "head", i |-> 0, j |-> 0, k |-> 0]
    IN  IF returns THEN run
        ELSE CASE k = "assign" -> [run EXCEPT !.phase = "rows", !.i = 1]
               [] k = "simdAdd" ->
                      [run EXCEPT !.phase = IF vec THEN "by4" ELSE "plain"]
               [] k = "simd" ->
                      [run EXCEPT !.phase = "first",
                                  !.pc = IF vec THEN "vec" ELSE "tail",
                                  !.j = IF vec THEN w ELSE 1]
               [] k = "scalar" ->
                      [run EXCEPT !.phase = "first", !.pc = "tail", !.j = 1]

\* the condition under which the row loop or row block of a phase is entered
PhaseTest(phase, i, M) ==
    CASE phase = "by4" -> i + 4 <= M
      [] phase = "by2" -> i + 2 <= M
      [] phase \in {"by1", "plain", "rows"} -> i < M

\* the first value of j in a row block
ColumnStart(vec, phase, w) ==
    IF vec THEN w ELSE IF phase = "plain" THEN 0 ELSE 1

\* a row loop that does not advance
RowStride_Stuck(phase) == 0

\* what the end of a row block adds to i: size_t i( 1UL ) after the first
\* row, i+=4UL, i+=2UL, ++i, and nothing after the last single row
RowStride(phase) ==
    CASE phase = "first" -> 1
      [] phase = "by4" -> 4
      [] phase = "by2" -> 2
      [] phase \in {"plain", "rows"} -> 1
      [] phase = "by1" -> 0

\* whether the block of a phase is the body of a loop
IsLoop(k, phase) ==
    phase \in {"by4", "plain", "rows"} \/ (k = "scalar" /\ phase = "by2")

\* the phase that follows a phase once its loop or its block has ended
PhaseAfter(k, vec, phase) ==
    CASE phase = "first" ->
             IF k = "scalar" THEN "by2" ELSE IF vec THEN "by4" ELSE "plain"
      [] phase = "by4" -> "by2"
      [] phase = "by2" -> "by1"
      [] phase = "by1" -> IF k = "simd" THEN "lanes" ELSE "done"
      [] phase \in {"plain", "rows"} -> "done"

\* j<N of the scalar loops and of the remainder loops, remainder && j<N of
\* the kernel of the summation
TailTest(remainder, j, N) == remainder /\ j < N

InitLoops ==
    /\ dm \in LoopMatrices
    /\ op \in {"Add", "Mult"}
    /\ lhs = NoTarget
    /\ res = NoRes
    /\ traits = NoTraits
    /\ sel = NoSel

\* a kernel or the column-wise assignment is called and runs up to its
\* first loop
CallLoops ==
    \E k \in LoopKernels, w \in SimdWidths, pad \in BOOLEAN :
        /\ res = NoRes
        /\ k = "simdAdd" => op = "Add"
        /\ res' = EnterLoops(k, dm, w, pad)
        /\ UNCHANGED <<dm, op, lhs, traits, sel>>

\* the test of a row loop or of a row block of a kernel
RowTest ==
    /\ res.kind = "loop" /\ res.pc = "head"
    /\ res.phase \in {"by4", "by2", "by1", "plain"}
    /\ res' = IF PhaseTest(res.phase, res.i, res.M)
              THEN [res EXCEPT !.pc = IF res.vec THEN "vec" ELSE "tail",
                               !.j = ColumnStart(res.vec, res.phase, res.w)]
              ELSE [res EXCEPT !.phase = PhaseAfter(res.kernel, res.vec, res.phase)]
    /\ UNCHANGED <<dm, op, lhs, traits, sel>>

\* for( ; j<jpos; j+=SIMDSIZE ): one iteration, or the end of the loop
ChunkLoop ==
    /\ res.kind = "loop" /\ res.pc = "vec"
    /\ res' = IF res.j < res.jpos THEN [res EXCEPT !.j = @ + res.w]
              ELSE [res EXCEPT !.pc = "tail"]
    /\ UNCHANGED <<dm, op, lhs, traits, sel>>

\* for( ; j<N; ++j ): one iteration, or the end of the loop and of the block
ColumnLoop ==
    /\ res.kind = "loop" /\ res.pc = "tail"
    /\ res' = IF TailTest(res.remainder, res.j, res.N)
              THEN [res EXCEPT !.j = @ + 1]
              ELSE [res EXCEPT !.pc = "head",
                               !.i = @ + RowStride(res.phase),
                               !.phase = IF IsLoop(res.kernel, res.phase) THEN @
                                         ELSE PhaseAfter(res.kernel, res.vec, @)]
    /\ UNCHANGED <<dm, op, lhs, traits, sel>>

\* redux = prod( xmm1 ), or for( size_t k=1UL; k<SIMDSIZE; ++k )
LaneLoop ==
    /\ res.kind = "loop" /\ res.pc = "head" /\ res.phase = "lanes"
    /\ res' = IF op = "Mult" THEN [res EXCEPT !.phase = "done"]
              ELSE IF res.k = 0 THEN [res EXCEPT !.k = 1]
              ELSE IF res.k < res.w THEN [res EXCEPT !.k = @ + 1]
              ELSE [res EXCEPT !.phase = "done"]
    /\ UNCHANGED <<dm, op, lhs, traits, sel>>

\* for( size_t i=1UL; i<M; ++i ) of the column-wise assignment
AssignLoop ==
    /\ res.kind = "loop" /\ res.pc = "head" /\ res.phase = "rows"
    /\ res' = IF PhaseTest(res.phase, res.i, res.M)
              THEN [res EXCEPT !.i = @ + RowStride(res.phase)]
              ELSE [res EXCEPT !.phase = PhaseAfter(res.kernel, res.vec, res.phase)]
    /\ UNCHANGED <<dm, op, lhs, traits, sel>>

\* the call returns
ReturnLoops ==
    /\ res.kind = "loop" /\ res.phase = "done"
    /\ res' = NoRes
    /\ UNCHANGED <<dm, op, lhs, traits, sel>>

StepLoops == RowTest \/ ChunkLoop \/ ColumnLoop \/ LaneLoop \/ AssignLoop

NextLoops == CallLoops \/ StepLoops \/ ReturnLoops

\* a call that has begun goes on until it returns
SpecLoops == InitLoops /\ [][NextLoops]_vars /\ WF_vars(StepLoops)

(***************************************************************************)
(* Termination of the loops.                                               *)
(***************************************************************************)
Running == res.kind = "loop"
Returning == res.kind = "loop" /\ res.phase = "done"

\* from one statement to the next the row index never falls, it has grown
\* when a row loop comes back to its test, and the column index has grown
\* when a column loop stays in its body
IndicesIncrease ==
    (Running /\ res'.kind = "loop") =>
        /\ res'.i >= res.i
        /\ (res.pc = "tail" /\ res'.pc = "head" /\ res'.phase = res.phase)
              => res'.i > res.i
        /\ (res.phase = "rows" /\ res'.phase = "rows") => res'.i > res.i
        /\ (res.pc \in {"vec", "tail"} /\ res'.pc = res.pc) => res'.j > res.j

\* the kernel of the summation over padded rows, which has no remainder loop
PaddedSum == res.kernel = "simdAdd" /\ ~res.remainder

\* C18 as stated: every call returns, the row index grows in every iteration
\* and never exceeds M, the column index grows in every iteration and never
\* exceeds N.
C18_Original ==
    /\ [](Running => (res.i <= res.M /\ res.j <= res.N))
    /\ [][IndicesIncrease]_vars
    /\ (Running ~> Returning)

\* C18: every call of a kernel and of the column-wise assignment returns;
\* the row index grows in every iteration of a row loop and never exceeds M;
\* the column index grows in every iteration of a column loop and never
\* exceeds N, except in the kernel of the summation over padded rows, where
\* it is a multiple of the SIMD width below N + SIMDSIZE.
C18_LoopsTerminate ==
    /\ [](Running =>
            /\ res.i <= res.M
            /\ IF PaddedSum THEN res.j % res.w = 0 /\ res.j < res.N + res.w
               ELSE res.j <= res.N)
    /\ [][IndicesIncrease]_vars
    /\ (Running ~> Returning)

\* C18 witness: the kernel of the summation returns from a padded 5x5 matrix
\* with SIMD width 4, the column index standing at 8
C18_Witness ==
    /\ Returning /\ PaddedSum
    /\ res.M = 5 /\ res.N = 5 /\ res.w = 4
    /\ res.i = 4 /\ res.j = 8

ReadOnce(m, rd) ==
    /\ Len(rd) = m.rows * m.cols
    /\ \A i \in 0..(m.rows - 1), j \in 0..(m.cols - 1) :
           Cardinality({ k \in 1..Len(rd) : rd[k] = <<i, j>> }) = 1

\* the applications of op in the generic SIMD kernel: the chunks of all rows
\* joined into one register, one per element right of jpos into lane 0, and
\* the lanes of the register joined into the result
SimdApplications(M, N, w) ==
    IF N >= w
    THEN (M * (ChunkEnd(N, w) \div w) - 1) + M * (N - ChunkEnd(N, w)) + (w - 1)
    ELSE M * N - 1

\* C26: reducing an M x N matrix with M*N >= 2, the scalar kernel hands
\* every element to the operation exactly once and applies the operation
\* M*N - 1 times; the generic SIMD kernel reads every element exactly once,
\* the columns below jpos by vector loads and the columns from jpos on into
\* lane 0, and joins each lane of the final register once.
C26_EveryElementOnce ==
    (res.kind = "reduce" /\ dm.rows * dm.cols >= 2) =>
        LET m == KernelMatrix
            sc == dmatreduce_scalar(m, res.op)
        IN  /\ KernelRun = "scalar"
                  => /\ res.ops = sc.ops /\ res.rd = sc.rd
                     /\ sc.ops = m.rows * m.cols - 1 /\ ReadOnce(m, sc.rd)
                     /\ \A w \in SimdWidths, pad \in BOOLEAN :
                           LET x == dmatreduce_simd(m, res.op, w, pad)
                           IN  /\ ReadOnce(m, x.rd)
                               /\ x.ops = SimdApplications(m.rows, m.cols, w)
            /\ KernelRun = "simd"
                  => /\ ReadOnce(m, res.rd)
                     /\ res.ops = SimdApplications(m.rows, m.cols, res.w)

\* C26 witness: the generic SIMD kernel of width 2 has taken the minimum of
\* a 5x5 matrix with 9 joins of registers, 5 steps on lane 0 and one join
\* of the lanes
C26_Witness ==
    /\ res.kind = "reduce" /\ res.op = "Min" /\ KernelRun = "simd" /\ res.w = 2
    /\ dm.so = "rowMajor" /\ dm.rows = 5 /\ dm.cols = 5
    /\ res.ops = 15 /\ Len(res.rd) = 25

\* C27: the kernels read within bounds: every read has a row index below M;
\* without padding every element read, by tmp(i,j) or as a lane of
\* tmp.load(i,j), has a column index below N, so that j + SIMDSIZE <= N for
\* every vector load; with padding the kernel of the summation reads by
\* vector loads only and each of them starts at a column below N.
C27_ReadsInBounds ==
    IsTotal =>
        LET m == KernelMatrix
            rd == res.rd
            padded == KernelRun = "simdAdd" /\ res.pad
        IN  /\ \A k \in 1..Len(rd) : rd[k][1] < m.rows
            /\ ~padded => \A k \in 1..Len(rd) : rd[k][2] < m.cols
            /\ padded
                  => /\ Len(rd) % res.w = 0
                     /\ \A c \in 0..((Len(rd) \div res.w) - 1) :
                            /\ rd[c * res.w + 1][2] < m.cols
                            /\ \A l \in 1..res.w :
                                   rd[c * res.w + l] =
                                       <<rd[c * res.w + 1][1], rd[c * res.w + 1][2] + l - 1>>

\* C27 witness: the kernel of the summation has read a padded 5x5 matrix by
\* vector loads of width 4, the second load of a row reaching column 7
C27_Witness ==
    /\ res.kind = "sum" /\ KernelRun = "simdAdd" /\ res.pad /\ res.w = 4
    /\ dm.so = "rowMajor" /\ dm.rows = 5 /\ dm.cols = 5
    /\ \E k \in 1..Len(res.rd) : res.rd[k] = <<4, 7>>

\* C30: for a SIMD width that is a power of two and every column count N not
\* below it, jpos = N & size_t(-SIMDSIZE), computed on 64-bit words, is
\* N - ( N % SIMDSIZE ): it does not exceed N, is a multiple of SIMDSIZE and
\* leaves fewer than SIMDSIZE columns to its right.
C30_ChunkEnd ==
    /\ \A w \in SimdWidths, N \in 0..MaxChunkCols :
           N >= w => /\ ChunkEnd(N, w) = N - (N % w)
                     /\ LoopEnd("simd", TRUE, N, w) = N - (N % w)
                     /\ LoopEnd("simdAdd", TRUE, N, w) = N - (N % w)
    /\ (Running /\ res.vec /\ res.remainder)
          => /\ res.N >= res.w
             /\ res.jpos = res.N - (res.N % res.w)
             /\ res.jpos <= res.N /\ res.jpos % res.w = 0
             /\ res.N - res.jpos < res.w

\* C30 witness: the generic SIMD kernel of width 4 stands in the columns
\* right of jpos = 4 of a matrix with 5 columns
C30_Witness ==
    /\ Running /\ res.kernel = "simd" /\ res.w = 4 /\ res.N = 5
    /\ res.jpos = 4 /\ res.pc = "tail" /\ res.j = 5

(***************************************************************************)
(* The scalar remainder of the SIMD kernels.                               *)
(***************************************************************************)
\* one iteration of the scalar loop over the columns right of the chunks
\* of a vectorized row block
TailStep ==
    /\ Running /\ res.vec /\ res.pc = "tail"
    /\ res'.kind = "loop" /\ res'.pc = "tail" /\ res'.j = res.j + 1

\* C21 as stated: over a padded operand neither SIMD kernel takes a scalar
\* step.
C21_Original == [][TailStep => ~res.pad]_vars

\* C21: over a padded operand the kernel of the summation covers all N
\* columns by vector loads and takes no scalar step; without padding it
\* runs the scalar loop over the columns [jpos, N); the generic SIMD kernel
\* runs the scalar loop over the columns [jpos, N) with and without padding.
C21_RemainderTail ==
    /\ []((Running /\ res.vec /\ res.pc = "tail")
             => IF PaddedSum THEN res.jpos = res.N /\ res.j >= res.N
                ELSE res.jpos <= res.j /\ res.j <= res.N)
    /\ [][TailStep => ~PaddedSum]_vars
    /\ [][(Running /\ res.vec /\ res.pc = "tail" /\ res'.kind = "loop"
              /\ res'.pc = "head" /\ ~PaddedSum)
             => (res.j = res.N /\ res.jpos = res.N - (res.N % res.w))]_vars

\* C21 witness: the generic SIMD kernel of width 4 has taken the scalar step
\* for column 4 of a padded matrix with 5 columns
C21_Witness ==
    /\ Running /\ res.kernel = "simd" /\ res.pad /\ res.vec
    /\ res.w = 4 /\ res.N = 5 /\ res.jpos = 4
    /\ res.pc = "tail" /\ res.j = 5 /\ res.phase = "by4"

LimbBase == 2^16
Limbs == WordBits \div 16

\* the word of a number below LimbBase * LimbBase
Word(n) ==
    [k \in 1..Limbs |-> IF k = 1 THEN n % LimbBase
                        ELSE IF k = 2 THEN n \div LimbBase ELSE 0]

\* size_t( -1 ) and the word with the highest bit only
MaxWord == [k \in 1..Limbs |-> LimbBase - 1]
HighWord == [k \in 1..Limbs |-> IF k = Limbs THEN LimbBase \div 2 ELSE 0]

\* a + b and a - b of two size_t, modulo 2^WordBits
AddWord(a, b) ==
    LET c[k \in 0..Limbs] == IF k = 0 THEN 0 ELSE (a[k] + b[k] + c[k - 1]) \div LimbBase
    IN  [k \in 1..Limbs |-> (a[k] + b[k] + c[k - 1]) % LimbBase]
NegWord(a) == AddWord([k \in 1..Limbs |-> LimbBase - 1 - a[k]], Word(1))
SubWord(a, b) == AddWord(a, NegWord(b))

\* a < b of two size_t
LessWord(a, b) ==
    \E k \in 1..Limbs : a[k] < b[k] /\ \A l \in (k + 1)..Limbs : a[l] = b[l]

\* a size_t read as a ptrdiff_t: its sign and its magnitude
Ptrdiff(w) ==
    IF w[Limbs] < LimbBase \div 2 THEN [neg |-> FALSE, mag |-> w]
    ELSE [neg |-> TRUE, mag |-> NegWord(w)]

\* operator+=( size_t inc ) and operator-=( size_t dec )
IterPlusAssign(it, inc) == [it EXCEPT !.index = AddWord(@, inc)]
IterMinusAssign(it, dec) == [it EXCEPT !.index = SubWord(@, dec)]

\* a difference of two iterators that is read back without its sign
IterDifference_Unsigned(a, b) == [neg |-> FALSE, mag |-> SubWord(a.index, b.index)]

\* operator-( const ConstIterator& rhs ): DifferenceType of index_ - rhs.index_
IterDifference(a, b) == Ptrdiff(SubWord(a.index, b.index))

\* operator==, !=, <, >, <= and >=
Relations == {"==", "!=", "<", ">", "<=", ">="}
IterCompare(rel, a, b) ==
    CASE rel = "==" -> a.index = b.index
      [] rel = "!=" -> a.index # b.index
      [] rel = "<"  -> LessWord(a.index, b.index)
      [] rel = ">"  -> LessWord(b.index, a.index)
      [] rel = "<=" -> a.index = b.index \/ LessWord(a.index, b.index)
      [] rel = ">=" -> a.index = b.index \/ LessWord(b.index, a.index)

\* ConstIterator( ... ) with the arguments args: the class declares the one
\* constructor ConstIterator( Operand dm, size_t index, OP op ); a call with
\* other arguments has no constructor to go to and is ill-formed
Construct(args) ==
    IF Len(args) = 3
    THEN [built |-> TRUE, it |-> ConstIterator(args[1], args[2], args[3])]
    ELSE [built |-> FALSE]

\* operator++( int ), operator--( int ), it + inc, inc + it and it - dec:
\* what is returned, and the iterator afterwards
Offsets == {"it++", "it--", "it+n", "n+it", "it-n"}
IterOffset(o, it, n) ==
    CASE o = "it++" -> [out |-> Construct(<<it.index>>),
                        it  |-> [it EXCEPT !.index = AddWord(@, Word(1))]]
      [] o = "it--" -> [out |-> Construct(<<it.index>>),
                        it  |-> [it EXCEPT !.index = SubWord(@, Word(1))]]
      [] o = "it+n" -> [out |-> Construct(<<AddWord(it.index, n)>>), it |-> it]
      [] o = "n+it" -> [out |-> Construct(<<AddWord(it.index, n)>>), it |-> it]
      [] o = "it-n" -> [out |-> Construct(<<SubWord(it.index, n)>>), it |-> it]

(***************************************************************************)
(* Specification of the iterator arithmetic: the iterators of the row-wise *)
(* node over a row-major operand, at the positions from begin() to end(),  *)
(* are moved, subtracted, compared and offset.                             *)
(***************************************************************************)
\* the operands: the row-major matrices whose first element is the special one
IterMatrices ==
    { m \in Matrices(MaxNodeRows, MaxNodeCols) :
        m.so = "rowMajor" /\ (m.v = <<>> \/ m.v[1] # 1) }

\* the values of size_t the iterators are moved by
Steps == {Word(0), Word(1), Word(2), HighWord, MaxWord}

\* begin() moved to position i by operator+=
IterAt(m, o, i) ==
    IterPlusAssign([begin(DMatReduceExpr(1, m, o)) EXCEPT !.index = Word(@)], Word(i))

InitIter ==
    /\ dm \in IterMatrices
    /\ op \in {"Add", "Mult"}
    /\ lhs = NoTarget
    /\ res = NoRes
    /\ traits = NoTraits
    /\ sel = NoSel

\* it += inc
PlusAssignIt ==
    \E i \in 0..dm.rows, inc \in Steps :
        /\ res = NoRes
        /\ res' = [kind |-> "moved", start |-> i, n |-> inc,
                   it |-> IterPlusAssign(IterAt(dm, op, i), inc)]
        /\ UNCHANGED <<dm, op, lhs, traits, sel>>

\* it -= dec on the iterator just moved, by the same amount
MinusAssignIt ==
    /\ res.kind = "moved"
    /\ res' = [res EXCEPT !.kind = "restored", !.it = IterMinusAssign(@, res.n)]
    /\ UNCHANGED <<dm, op, lhs, traits, sel>>

\* a - b
Subtract ==
    \E i \in 0..dm.rows, k \in 0..dm.rows :
        /\ res = NoRes
        /\ res' = [kind |-> "difference", a |-> i, b |-> k,
                   v |-> IterDifference(IterAt(dm, op, i), IterAt(dm, op, k))]
        /\ UNCHANGED <<dm, op, lhs, traits, sel>>

\* a rel b, b being an iterator of the same node or of a node over the
\* transposed elements with another operation
Compare ==
    \E i \in 0..dm.rows, k \in 0..dm.rows, rel \in Relations, same \in BOOLEAN :
        LET b == IF same THEN IterAt(dm, op, k)
                 ELSE IterAt([trans(dm) EXCEPT !.so = "rowMajor"], "Min", k)
        IN  /\ res = NoRes
            /\ res' = [kind |-> "compared", a |-> i, b |-> k, rel |-> rel,
                       same |-> same, v |-> IterCompare(rel, IterAt(dm, op, i), b)]
            /\ UNCHANGED <<dm, op, lhs, traits, sel>>

\* it++, it--, it + n, n + it and it - n
Offset ==
    \E o \in Offsets, i \in 0..dm.rows, n \in Steps :
        LET r == IterOffset(o, IterAt(dm, op, i), n)
        IN  /\ res = NoRes
            /\ res' = [kind |-> "offset", o |-> o, start |-> i, n |-> n,
                       out |-> r.out, it |-> r.it]
            /\ UNCHANGED <<dm, op, lhs, traits, sel>>

\* the caller lets go of the iterators
Dropped ==
    /\ res # NoRes
    /\ res' = NoRes
    /\ UNCHANGED <<dm, op, lhs, traits, sel>>

NextIter == PlusAssignIt \/ MinusAssignIt \/ Subtract \/ Compare \/ Offset \/ Dropped

SpecIter == InitIter /\ [][NextIter]_vars

(***************************************************************************)
(* Properties of the iterator arithmetic.                                  *)
(***************************************************************************)
\* the index an offset operation is to return an iterator at
OffsetIndex(o, i, n) ==
    CASE o \in {"it++", "it--"} -> Word(i)
      [] o \in {"it+n", "n+it"} -> AddWord(Word(i), n)
      [] o = "it-n" -> SubWord(Word(i), n)

\* C22 as stated: it++ and it-- return an iterator at the previous position
\* and move the iterator by one; it + n, n + it and it - n return an
\* iterator at the index of it plus, respectively minus, n and leave it
\* alone; the iterator returned has the operand and the operation of it.
C22_Original ==
    res.kind = "offset" =>
        /\ res.out.built
        /\ res.out.it = ConstIterator(dm, OffsetIndex(res.o, res.start, res.n), op)
        /\ res.it = ConstIterator(dm, CASE res.o = "it++" -> Word(res.start + 1)
                                        [] res.o = "it--" -> SubWord(Word(res.start), Word(1))
                                        [] OTHER -> Word(res.start), op)

\* C22 witness: it++ at position 1 has no iterator to return
C22_Witness ==
    /\ res.kind = "offset" /\ res.o = "it++" /\ res.start = 1
    /\ ~res.out.built /\ res.it.index = Word(2)

\* the magnitude of a number
Abs(x) == IF x < 0 THEN 0 - x ELSE x

\* C23: the difference a - b of two iterators of a node is the signed
\* difference of their indices, also when a stands before b and the
\* unsigned subtraction wraps; each of the six comparisons is the
\* comparison of the two indices, whatever the operands and operations of
\* the iterators; it += n followed by it -= n leaves the index it had, also
\* when the sum wraps.
C23_IteratorArithmetic ==
    /\ res.kind = "difference"
          => /\ res.v.mag = Word(Abs(res.a - res.b))
             /\ res.v.neg = (res.a < res.b)
    /\ res.kind = "compared"
          => res.v = CASE res.rel = "==" -> res.a = res.b
                       [] res.rel = "!=" -> res.a # res.b
                       [] res.rel = "<"  -> res.a < res.b
                       [] res.rel = ">"  -> res.a > res.b
                       [] res.rel = "<=" -> res.a <= res.b
                       [] res.rel = ">=" -> res.a >= res.b
    /\ res.kind = "restored" => res.it = IterAt(dm, op, res.start)

\* C23 witness: the iterator at position 1 moved by size_t( -1 ), which
\* wraps to position 0, and back
C23_Witness ==
    /\ res.kind = "restored" /\ res.start = 1 /\ res.n = MaxWord
    /\ res.it.index = Word(1) /\ dm.rows = 3

(***************************************************************************)
(* Expressions as operands.  B * s is a matrix/scalar multiplication: an   *)
(* expression object with the left operand B, a matrix or a reference to   *)
(* the container dm, and the right operand s.  A node holds its operand    *)
(* as the type Operand says: an expression by value, a container by        *)
(* reference.                                                              *)
(***************************************************************************)
\* B * s, its operands and its elements
MatScalarMult(left, s) == [left |-> left, right |-> s]
leftOperand(e) == e.left
rightOperand(e) == e.right

\* references to the container dm and to the expression object in traits,
\* and the object behind a reference as it is now
ContainerRef == [ref |-> "dm"]
ExpressionRef == [ref |-> "traits"]
Referent(x) ==
    IF "ref" \in DOMAIN x THEN (IF x.ref = "dm" THEN dm ELSE traits.e) ELSE x

\* the matrix an expression B * s stands for: (B * s)(i,j) is B(i,j) * s
ExprValue(e) ==
    LET B == Referent(leftOperand(e))
    IN  [B EXCEPT !.v = [k \in DOMAIN B.v |-> B.v[k] * rightOperand(e)]]

\* trans( B * s ), restructured to trans( B ) * s
transScalarMult_Untransposed(e) == MatScalarMult(leftOperand(e), rightOperand(e))
transScalarMult(e) == MatScalarMult(trans(leftOperand(e)), rightOperand(e))

\* an operand type that holds containers by value as well
Operand_ByValue(isExpression, object, ref) == [held |-> "value", obj |-> object]

\* Operand: const MT for an expression, const MT& for a container; object
\* is the operand the node is constructed from and ref the reference to it
Operand(isExpression, object, ref) ==
    IF isExpression THEN [held |-> "value", obj |-> object]
    ELSE [held |-> "reference", obj |-> ref]

\* the matrix the operand of a node stands for now
OperandValue(opd) ==
    LET x == Referent(opd.obj)
    IN  IF "right" \in DOMAIN x THEN ExprValue(x) ELSE x

\* DMatReduceExpr( dm, op ) with the operand held as Operand says
HeldNode(rf, isExpression, object, ref) ==
    [kind |-> "node", rf |-> rf, operand |-> Operand(isExpression, object, ref)]

\* the node held in sel, over its operand as it is now
NodeNow == DMatReduceExpr(sel.node.rf, OperandValue(sel.node.operand), op)

(***************************************************************************)
(* Specification of the operands: a node is built over the container dm or *)
(* over the temporary expression dm * s; afterwards the container is       *)
(* written to and the temporary ends its life, and the node is accessed    *)
(* and assigned.  The transpose of dm * s is taken as well.                *)
(***************************************************************************)
\* the containers: row-major, the distinguished element among the first two
ExprMatrices ==
    { m \in Matrices(MaxNodeRows, MaxNodeCols) :
        m.so = "rowMajor" /\ \A k \in 3..Len(m.v) : m.v[k] = 1 }

\* the scalars of the multiplications and the values written to the container
Scalars == {0 - 2, 3}
NewValues == {5}

InitExpr ==
    /\ dm \in ExprMatrices
    /\ op \in {"Add", "Mult"}
    /\ lhs = NoTarget
    /\ res = NoRes
    /\ traits = NoTraits
    /\ sel = NoSel

\* auto node = reduce<RF>( dm, op ), the operand being a container
BuildOverContainer ==
    \E rf \in ReductionFlags :
        /\ sel = NoSel
        /\ res = NoRes
        /\ sel' = [node |-> HeldNode(rf, FALSE, dm, ContainerRef), kind |-> "held",
                   over |-> "container", scale |-> 1, since |-> dm, modified |-> FALSE]
        /\ UNCHANGED <<dm, op, lhs, res, traits>>

\* auto node = reduce<RF>( dm * s, op ), the operand being a temporary
BuildOverExpression ==
    \E rf \in ReductionFlags, s \in Scalars :
        LET e == MatScalarMult(ContainerRef, s)
        IN  /\ sel = NoSel
            /\ res = NoRes
            /\ traits' = [kind |-> "expression", alive |-> TRUE, e |-> e]
            /\ sel' = [node |-> HeldNode(rf, TRUE, e, ExpressionRef), kind |-> "held",
                       over |-> "expression", scale |-> s, since |-> dm,
                       modified |-> FALSE]
            /\ UNCHANGED <<dm, op, lhs, res>>

\* dm(i,j) = x, after the construction of the node
Modify ==
    \E p \in DOMAIN dm.v, x \in NewValues :
        /\ sel.kind = "held"
        /\ ~sel.modified
        /\ res = NoRes
        /\ dm' = [dm EXCEPT !.v[p] = x]
        /\ sel' = [sel EXCEPT !.modified = TRUE]
        /\ UNCHANGED <<op, lhs, res, traits>>

\* the end of the full expression: the temporary dm * s is destroyed
Expire ==
    /\ traits.kind = "expression"
    /\ traits.alive
    /\ res = NoRes
    /\ traits' = [traits EXCEPT !.alive = FALSE, !.e.right = Garbage]
    /\ UNCHANGED <<dm, op, lhs, res, sel>>

\* node[index]
AccessHeld ==
    \E index \in Indices :
        /\ sel.kind = "held"
        /\ res = NoRes
        /\ index < NodeSize(NodeNow)
        /\ res' = [kind |-> "access", index |-> index,
                   v |-> NodeSubscript(NodeNow, index)]
        /\ UNCHANGED <<dm, op, lhs, traits, sel>>

\* lhs = node
AssignHeld ==
    \E t \in TargetsFor(dm) :
        /\ sel.kind = "held"
        /\ res = NoRes
        /\ t.n = NodeSize(NodeNow)
        /\ lhs' = assign(t, NodeNow, FALSE)
        /\ res' = [kind |-> "assigned"]
        /\ UNCHANGED <<dm, op, traits, sel>>

\* trans( dm * s )
TransScalarMult ==
    \E s \in Scalars :
        /\ res = NoRes
        /\ res' = [kind |-> "trans", s |-> s,
                   e |-> transScalarMult(MatScalarMult(dm, s))]
        /\ UNCHANGED <<dm, op, lhs, traits, sel>>

\* the caller lets go of the result
Finish ==
    /\ res # NoRes
    /\ res' = NoRes
    /\ lhs' = NoTarget
    /\ UNCHANGED <<dm, op, traits, sel>>

NextExpr ==
    \/ BuildOverContainer \/ BuildOverExpression \/ Modify \/ Expire
    \/ AccessHeld \/ AssignHeld \/ TransScalarMult \/ Finish

SpecExpr == InitExpr /\ [][NextExpr]_vars

(***************************************************************************)
(* Properties of the operands.                                             *)
(***************************************************************************)
\* the transpose of B * s, element by element, without the restructuring
TransposedProduct(B, s) ==
    [rows |-> B.cols, cols |-> B.rows,
     e    |-> [i \in 0..(B.cols - 1), j \in 0..(B.rows - 1) |->
                  Elem(ExprValue(MatScalarMult(B, s)), j, i)]]

\* C29: trans( B * s ) is restructured to trans( B ) * s: the result is a
\* matrix/scalar multiplication whose left operand is the transpose of B and
\* whose right operand is s; it has columns(B) rows and rows(B) columns, its
\* element (i,j) is B(j,i) * s, and it equals the transpose of B * s.
C29_TransScalarMult ==
    res.kind = "trans" =>
        LET v == ExprValue(res.e)
            t == TransposedProduct(dm, res.s)
        IN  /\ rightOperand(res.e) = res.s
            /\ leftOperand(res.e) = trans(dm)
            /\ v.rows = dm.cols /\ v.cols = dm.rows
            /\ v.rows = t.rows /\ v.cols = t.cols
            /\ \A i \in 0..(v.rows - 1), j \in 0..(v.cols - 1) :
                   /\ Elem(v, i, j) = Elem(dm, j, i) * res.s
                   /\ Elem(v, i, j) = t.e[i, j]

\* trans( B * 3 ) of a 2x3 matrix B with B(0,1) = 2: the result is 3x2 and
\* its element (1,0) is 6, not the 3 of B(1,0) * 3
C29_Witness ==
    /\ res.kind = "trans" /\ res.s = 3
    /\ dm.rows = 2 /\ dm.cols = 3
    /\ Elem(dm, 0, 1) = 2 /\ Elem(dm, 1, 0) = 1
    /\ ExprValue(res.e).rows = 3
    /\ Elem(ExprValue(res.e), 1, 0) = 6

\* the matrix the node in sel reduces if its operand is read now
OperandNow ==
    IF sel.over = "container" THEN dm
    ELSE ExprValue(MatScalarMult(dm, sel.scale))

\* C24: a node over a concrete container holds it by reference and reads it
\* when it is accessed or assigned, so a write to the container after the
\* construction of the node is seen by the access and by the assignment; a
\* node over another expression holds its own copy of that expression, which
\* the end of the life of the original leaves intact.
C24_LazyOperand ==
    /\ [](sel.kind = "held" =>
            /\ sel.over = "container" <=> sel.node.operand.held = "reference"
            /\ sel.over = "expression" =>
                   /\ sel.node.operand.obj = MatScalarMult(ContainerRef, sel.scale)
                   /\ OperandValue(sel.node.operand) = OperandNow)
    /\ [][res'.kind = "access" =>
            res'.v = NodeSubscript(DMatReduceExpr(sel.node.rf, OperandNow, op),
                                   res'.index)]_vars
    /\ [][res'.kind = "assigned" =>
            \E t \in TargetsFor(dm) :
                /\ t.n = NodeSize(DMatReduceExpr(sel.node.rf, OperandNow, op))
                /\ lhs' = assign(t, DMatReduceExpr(sel.node.rf, OperandNow, op),
                                 FALSE)]_vars

\* a row-wise sum node over a container, an element of row 0 written after
\* the construction: node[0] is the sum of the row as it is now, which is
\* not the sum at the construction
C24_Witness ==
    /\ sel.kind = "held" /\ sel.over = "container" /\ sel.modified
    /\ sel.node.rf = 1 /\ op = "Add"
    /\ res.kind = "access" /\ res.index = 0
    /\ res.v = dvecreduce(row(dm, 0), "Add")
    /\ res.v # dvecreduce(row(sel.since, 0), "Add")

====
